---- MODULE Spec2Model ----
(***************************************************************************)
(* A model of the metasinf operator library (include/metasinf/*.h): the    *)
(* population data model, SelectionSize, the selection, crossover,         *)
(* replacement, termination and migration operators and the GA, EDA and    *)
(* island-model drivers.                                                   *)
(*                                                                         *)
(* Every operator of the library is a function object called by a driver   *)
(* or by user code.  Each component has its own group of variables and its *)
(* own specification (SpecPmx, SpecReplacement, ...), whose actions are    *)
(* the calls of that component; the variables of the other components      *)
(* stay at their idle values.                                              *)
(*                                                                         *)
(* Conventions.  C++ vectors indexed 0..size-1 whose indices are stored as *)
(* values (the PMX representation and its inverse maps) are functions on   *)
(* 0..size-1.  Populations are sequences: C++ pop[i] is pop[i+1] here.     *)
(* An Individual is a record [data, fitness]; fitness -1 is the dirty      *)
(* sentinel (population.h:41,53,56).                                       *)
(***************************************************************************)
EXTENDS Integers, Sequences, FiniteSets, TLC

VARIABLES
  \* ---- CrossoverPmx (crossover.h:56-95)
  value0,      \* first parent representation  (argument, mutated in place)
  value1,      \* second parent representation (argument, mutated in place)
  p0,          \* thread_local inverse map of value0 (crossover.h:59)
  p1,          \* thread_local inverse map of value1 (crossover.h:59)
  index0,      \* cut points drawn by the last call (after ordering)
  index1,
  pmx_calls,   \* number of calls made so far
  \* ---- SelectionSize (population.h:16-36)
  ss,          \* the SelectionSize object: [count, pnum, pden]
  ss_size,     \* argument of the last call of operator()
  ss_result,   \* value the last call returned
  ss_calls,    \* number of calls made so far
  \* ---- ReplacementElitist (replacement.h:25-41)
  rp_size,     \* the operator's SelectionSize member
  rp_src,      \* offspring pool (argument src)
  rp_dst,      \* destination population (argument dst)
  rp_src0,     \* src as it was when the call began
  rp_dst0,     \* dst as it was when the call began
  rp_calls,    \* number of calls made so far
  \* ---- TerminationStagnation (termination.h:70-103)
  st,          \* the predicate: [max_generations, curr_generation_, best_fitness_]
  st_result,   \* value the last call returned ("none" before the first call)
  st_hist,     \* best fitness of the population of each call so far, in
               \* order; EmptyPop for a call on an empty population
  \* ---- SelectionRandom, SelectionTruncate, SelectionRouletteWheel,
  \* ---- SelectionSus, SelectionTournament (selection.h:17-178)
  sel_op,      \* the operator called: "random", "truncate", "roulette", "sus"
               \* or "tournament"
  sel_size,    \* the operator's SelectionSize member
  tournament_size, \* SelectionTournament's member (0 for the other operators)
  sel_src,     \* source population (argument src)
  sel_src0,    \* src as it was when the call began
  sel_dst,     \* destination population (argument dst)
  sel_dst0,    \* dst as it was when the call began
  cum_fitness, \* thread_local prefix sums of SelectionRouletteWheel (selection.h:75)
  sel_rand,    \* the random draws of the call: for roulette the pick of each
               \* sample, for SUS the offset, for random the index of each
               \* sample, for tournament the winner of each tournament
  sel_outcome, \* how the call ended: "none" (not called), "returned"
  \* ---- MigrationRandom, MigrationRing (migration.h:16-71)
  mg_op,       \* the operator called: "random" or "ring"
  mg_size,     \* the operator's SelectionSize member
  mg_islands,  \* the populations islands[i].pop, in the order of the vector
  mg_all,      \* every individual of the islands at construction
  mg_before,   \* the populations as they were when the last call began
  mg_called,   \* whether a migration call was made
  \* ---- Ga (ga.h:21-115)
  ga,          \* the instance: rates, operators and termination functor
  ga_pop,      \* the population the instance is stepped on (argument pop)
  tmp,         \* thread_local mating pool of Ga::operator() (ga.h:66)
  ga_pop0,     \* pop as it was when the last step began
  ga_result,   \* value the last step returned ("none" before the first)
  ga_calls,    \* number of steps made so far
  ga_path,     \* the way the last step took: "none", "empty", "no_pool", "full"
  ga_shuffled, \* the pool of the last step as shuffled (ga.h:82)
  ga_pool,     \* the pool the last step handed to the replacement functor
  ga_touched,  \* the positions of that pool crossover or mutation was applied to
  \* ---- Eda, PbilDist, PbilUpdate (eda.h:18-62, pbil.h:15-90)
  eda,         \* the instance: pop_size, update and termination functors
  ndebug,      \* whether the build compiles the asserts out (NDEBUG)
  dist,        \* the PbilDist's probability vector prob
  eda_pop,     \* thread_local population of Eda::operator() (eda.h:44)
  eda_result,  \* how the last step ended: "none", "true", "false" (returned),
               \* "assert" (aborted), "undefined" (crashed)
  eda_calls,   \* number of steps made so far
  \* ---- IslandModel (island_model.h:12-73)
  migration_rate, \* IslandModel::migration_rate
  migration,   \* IslandModel::migration: [op, size]
  islands,     \* the vector of islands: [pop, ga] each
  im_pc,       \* "idle" between calls of operator(), "round" inside the loop
  im_i,        \* the loop variable i (island_model.h:51)
  im_j,        \* number of islands the range-for of this round has stepped
  im_result,   \* the local result (island_model.h:52)
  im_steps,    \* per island, the GA steps made in the current or last call
  im_round,    \* per island, what its step of the current round returned
  im_migrations, \* migrations executed in the current or last call
  im_returned, \* value the last call returned ("none" while one runs)
  im_calls,    \* number of calls of operator() begun
  \* ---- Evaluate (population.h:66-74)
  ev_pop,      \* the population (argument pop)
  ev_pop0,     \* pop as it was when the last call began
  ev_log,      \* the invocations of the evaluator in the last call, in
               \* order: the C++ index of the individual it was given
  ev_calls,    \* number of calls made so far
  \* ---- PbilDist, PbilUpdate (pbil.h:15-89)
  pb_update,   \* the PbilUpdate object
  pb_ndebug,   \* whether the asserts are compiled out (NDEBUG)
  pb_prob,     \* PbilDist::prob
  pb_prob0,    \* prob as it was when the last call began
  pb_value,    \* the representation the last sampling wrote
  pb_last,     \* the last call: "none", "sample", or how the update ended:
               \* "ok", "assert" (abort) or "undefined"
  pb_calls,    \* number of calls made so far
  \* ---- MutationSwap, MutationInvert, MutationMove (mutation.h:37-95)
  mu_op,       \* the operator called: "swap", "invert" or "move"
  mu_count,    \* MutationSwap::count
  mu_value,    \* the representation (argument value)
  mu_i,        \* MutationSwap: the loop counter i
  mu_index0,   \* index0 of the call that runs (-1: not drawn yet)
  mu_index1,   \* index1 of the call that runs (-1: not drawn yet)
  mu_pass,     \* parity of the passes the do-while loop has made for index0
  mu_pc        \* where the call is: "idle" (not begun), "index0" (about to
               \* draw index0), "index1" (in the do-while loop) or "done"
               \* (returned)

varsPmx == <<value0, value1, p0, p1, index0, index1, pmx_calls>>
varsSize == <<ss, ss_size, ss_result, ss_calls>>
varsRepl == <<rp_size, rp_src, rp_dst, rp_src0, rp_dst0, rp_calls>>
varsStag == <<st, st_result, st_hist>>
varsSel == <<sel_op, sel_size, tournament_size, sel_src, sel_src0, sel_dst,
             sel_dst0, cum_fitness, sel_rand, sel_outcome>>
varsSelRest == <<sel_op, sel_size, tournament_size, sel_src, sel_src0, sel_dst,
                 sel_dst0, sel_rand, sel_outcome>>
varsMig == <<mg_op, mg_size, mg_islands, mg_all, mg_before, mg_called>>
varsGaRest == <<ga, ga_pop, ga_pop0, ga_result, ga_calls, ga_path, ga_shuffled,
                ga_pool, ga_touched>>
varsGa == <<varsGaRest, tmp>>
varsEda == <<eda, ndebug, dist, eda_pop, eda_result, eda_calls>>
varsIsland == <<migration_rate, migration, islands, im_pc, im_i, im_j, im_result,
                im_steps, im_round, im_migrations, im_returned, im_calls>>

varsEval == <<ev_pop, ev_pop0, ev_log, ev_calls>>
varsPbil == <<pb_update, pb_ndebug, pb_prob, pb_prob0, pb_value, pb_last, pb_calls>>
varsMut == <<mu_op, mu_count, mu_value, mu_i, mu_index0, mu_index1, mu_pass,
             mu_pc>>

vars == <<varsPmx, varsSize, varsRepl, varsStag, varsSel, varsMig, varsGa, varsEda,
          varsIsland, varsEval, varsPbil, varsMut>>

\* ------------------------------------------------------------------ bounds

\* Largest representation length given to CrossoverPmx.
MaxSize == 3
\* Calls of CrossoverPmx per behaviour.
MaxPmxCalls == 2

\* Largest absolute count of a SelectionSize.
MaxCount == 4
\* Percentages are the fractions k/PctDen, k = 0..PctDen.
PctDen == 4
\* Largest source size given to a SelectionSize call.
MaxSrcSize == 5
\* Calls of SelectionSize::operator() per behaviour.
MaxSizeCalls == 2
\* Largest fitness value an evaluator returns.
MaxFit == 2
\* Largest destination population given to a replacement operator.
MaxPop == 3
\* Largest offspring pool given to a replacement operator.
MaxPool == 2
\* Largest max_generations of a TerminationStagnation.
MaxGen == 3
\* Calls of TerminationStagnation::operator() per behaviour.
MaxStagCalls == 4
\* Largest population given to a termination predicate.
MaxTermPop == 2
\* Largest source population given to a selection operator.
MaxSelSrc == 3
\* Random real draws are the multiples of 1/DrawDen of the unit in which the
\* operator compares them.
DrawDen == 2
\* Largest number of individuals on all islands together.
MaxMigInd == 2

\* Length of the bit-vector representations of the drivers.
RepLen == 1
\* Largest population a genetic algorithm starts on.
MaxGaPop == 2
\* Steps of a driver (Ga, Eda) per behaviour.
MaxDriverCalls == 2
\* Largest pop_size and best_count of an Eda.
MaxEdaPop == 2
\* Largest migration_rate of an IslandModel.
MaxRate == 2
\* Largest number of individuals on all islands of an IslandModel together.
MaxIslandInd == 2
\* Calls of IslandModel::operator() per behaviour.
MaxModelCalls == 1

\* Largest population given to Evaluate.
MaxEvalPop == 2
\* Calls of Evaluate per behaviour.
MaxEvalCalls == 2
\* Largest tournament_size of a SelectionTournament.
MaxTournament == 2
\* Largest population given to PbilUpdate, and largest best_count.
MaxPbilPop == 1
\* Calls of PbilDist and PbilUpdate per behaviour.
MaxPbilCalls == 1
\* Longest representation given to a mutation operator.
MaxMutLen == 3
\* Largest count of a MutationSwap.
MaxSwapCount == 2

\* ------------------------------------------------------------- general help

Min(a, b) == IF a < b THEN a ELSE b
Max(a, b) == IF a > b THEN a ELSE b

\* The 0-indexed vectors of length n over 0..n-1 holding every value once.
Permutations0(n) ==
  {f \in [0 .. n - 1 -> 0 .. n - 1] : \A v \in 0 .. n - 1 : \E i \in 0 .. n - 1 : f[i] = v}

\* v holds each value of 0..n-1 exactly once (no duplicate, no missing value).
IsPermutation0(v, n) ==
  /\ DOMAIN v = 0 .. n - 1
  /\ \A x \in 0 .. n - 1 : Cardinality({i \in 0 .. n - 1 : v[i] = x}) = 1

\* ============================================================ CrossoverPmx

\* crossover.h:73-80: p0.assign(size, 0); p0[value0[i]] = i for i = 0..size-1,
\* in increasing i (a later i overwrites an earlier one).
RECURSIVE InverseMap(_, _, _, _)
InverseMap(value, size, i, p) ==
  IF i >= size THEN p
  ELSE InverseMap(value, size, i + 1, [p EXCEPT ![value[i]] = i])

\* One iteration of the exchange loop with the repair of the displaced
\* duplicate left out (the mutant of PmxIteration).
PmxIterationNoRepair(s, i) ==
  LET tmp0 == s.value0[i]
      tmp1 == s.value1[i]
  IN  [s EXCEPT !.value0 = [s.value0 EXCEPT ![i] = tmp1],
                !.value1 = [s.value1 EXCEPT ![i] = tmp0]]

\* crossover.h:82-93: one iteration of the exchange loop, the assignments in
\* the order of the code.  s = [value0, value1, p0, p1].
PmxIteration(s, i) ==
  LET tmp0 == s.value0[i]
      tmp1 == s.value1[i]
      a0 == [s.value0 EXCEPT ![i] = tmp1]
      a1 == [s.value1 EXCEPT ![i] = tmp0]
      b0 == [a0 EXCEPT ![s.p0[tmp1]] = tmp0]
      b1 == [a1 EXCEPT ![s.p1[tmp0]] = tmp1]
      q0 == [s.p0 EXCEPT ![tmp0] = s.p0[tmp1], ![tmp1] = s.p0[tmp0]]
      q1 == [s.p1 EXCEPT ![tmp0] = s.p1[tmp1], ![tmp1] = s.p1[tmp0]]
  IN  [value0 |-> b0, value1 |-> b1, p0 |-> q0, p1 |-> q1]

\* crossover.h:82: for (i = index0; i < index1; ++i)
RECURSIVE PmxLoop(_, _, _)
PmxLoop(s, i, hi) ==
  IF i >= hi THEN s ELSE PmxLoop(PmxIteration(s, i), i + 1, hi)

\* crossover.h:56-95: CrossoverPmx::operator() with the two draws d0, d1 of
\* uniform_int_distribution(0, size).
CrossoverPmx(d0, d1) ==
  LET size == Min(Cardinality(DOMAIN value0), Cardinality(DOMAIN value1))
      lo == Min(d0, d1)
      hi == Max(d0, d1)
  IN  /\ pmx_calls < MaxPmxCalls
      /\ d0 \in 0 .. size /\ d1 \in 0 .. size
      /\ index0' = lo
      /\ index1' = hi
      /\ pmx_calls' = pmx_calls + 1
      /\ IF lo = hi
           THEN UNCHANGED <<value0, value1, p0, p1>>
           ELSE LET zero == [v \in 0 .. size - 1 |-> 0]
                    s0 == [value0 |-> value0, value1 |-> value1,
                           p0 |-> InverseMap(value0, size, 0, zero),
                           p1 |-> InverseMap(value1, size, 0, zero)]
                    s1 == PmxLoop(s0, lo, hi)
                IN  /\ value0' = s1.value0
                    /\ value1' = s1.value1
                    /\ p0' = s1.p0
                    /\ p1' = s1.p1

\* The caller's representations: two permutations of 0..size-1 of one length;
\* the scratch maps are empty before the first call.
InitPmxVars ==
  /\ \E n \in 0 .. MaxSize :
       /\ value0 \in Permutations0(n)
       /\ value1 \in Permutations0(n)
  /\ p0 = <<>>
  /\ p1 = <<>>
  /\ index0 = 0
  /\ index1 = 0
  /\ pmx_calls = 0

IdlePmx ==
  /\ value0 = <<>> /\ value1 = <<>> /\ p0 = <<>> /\ p1 = <<>>
  /\ index0 = 0 /\ index1 = 0 /\ pmx_calls = 0

PmxCall == \E d0, d1 \in 0 .. MaxSize : CrossoverPmx(d0, d1)

\* =========================================================== SelectionSize

\* The SelectionSize objects the three constructors build (population.h:17-20):
\* an absolute count (percentage 0.0) or a percentage pnum/pden (count 0).
\* The percentages are fractions whose product with a size is computed
\* exactly; SelectionSize() and SelectionSize(size_t 0) are the percentage 0.
SelectionSizes ==
  {[count |-> c, pnum |-> 0, pden |-> PctDen] : c \in 1 .. MaxCount}
    \cup {[count |-> 0, pnum |-> k, pden |-> PctDen] : k \in 0 .. PctDen}

\* The smallest integer >= a / b, for a >= 0 and b > 0 (std::ceil).
Ceil(a, b) == (a + b - 1) \div b

\* The largest integer <= a / b: what a truncating conversion would give.
Floor(a, b) == a \div b

\* SelectionSize::operator() rounding the percentage down (mutant).
SelectionSizeCallFloor(sz, size) ==
  IF sz.count > 0 THEN Min(sz.count, size) ELSE Floor(sz.pnum * size, sz.pden)

\* SelectionSize::operator() returning the raw count (mutant).
SelectionSizeCallNoClamp(sz, size) ==
  IF sz.count > 0 THEN sz.count ELSE Ceil(sz.pnum * size, sz.pden)

\* population.h:28-35: SelectionSize::operator()(size).  The assert on the
\* percentage holds for every object of SelectionSizes.
SelectionSizeCall(sz, size) ==
  IF sz.count > 0 THEN Min(sz.count, size) ELSE Ceil(sz.pnum * size, sz.pden)

InitSizeVars ==
  /\ ss \in SelectionSizes
  /\ ss_size = 0
  /\ ss_result = 0
  /\ ss_calls = 0

IdleSize ==
  /\ ss = [count |-> 0, pnum |-> 0, pden |-> PctDen]
  /\ ss_size = 0 /\ ss_result = 0 /\ ss_calls = 0

\* A caller resolves the object against a source of the given size.
SizeCall ==
  \E size \in 0 .. MaxSrcSize :
    /\ ss_calls < MaxSizeCalls
    /\ ss_size' = size
    /\ ss_result' = SelectionSizeCall(ss, size)
    /\ ss_calls' = ss_calls + 1
    /\ UNCHANGED ss

\* ============================================================== Population

\* population.h:41: a default-constructed Individual (T() is 0 here).
DefaultIndividual == [data |-> 0, fitness |-> -1]

\* population.h:53
is_dirty(ind) == ind.fitness < 0

\* population.h:56
mark_dirty(ind) == [ind EXCEPT !.fitness = -1]

\* The orders of the positions 1..n.
IndexPermutations(n) ==
  {f \in [1 .. n -> 1 .. n] : \A i, j \in 1 .. n : f[i] = f[j] => i = j}

\* pop's individuals in every order.
Reorderings(pop) ==
  {[i \in 1 .. Len(pop) |-> pop[f[i]]] : f \in IndexPermutations(Len(pop))}

\* Sorted by operator> (population.h:59): fitness is non-increasing.
SortedDescending(pop) ==
  \A i \in 1 .. Len(pop) - 1 : pop[i].fitness >= pop[i + 1].fitness

\* std::sort(begin, end, std::greater<Individual>()): every result the sort
\* can give.  std::sort is not stable, so individuals of equal fitness end in
\* any order.
SortDescending(pop) == {q \in Reorderings(pop) : SortedDescending(q)}

\* A clear() that leaves the elements in place.
ClearKeeps(pop) == pop

\* std::vector::clear(): no element is left.
Clear(pop) == <<>>

\* std::vector::resize(count): truncate, or pad with default individuals.
Resize(pop, count) ==
  [i \in 1 .. count |-> IF i <= Len(pop) THEN pop[i] ELSE DefaultIndividual]

\* ============================================================= Replacement

\* replacement.h:17-19: ReplacementAll: dst = std::move(src).  The moved-from
\* vector is left empty by the implementations the code is built with.
ReplacementAll(src, dst) == {[src |-> <<>>, dst |-> src]}

\* ReplacementElitist without the sort: keeps the first count individuals
\* in their current order (mutant).
ReplacementElitistNoSort(size, src, dst) ==
  {[src |-> <<>>, dst |-> Resize(dst, SelectionSizeCall(size, Len(dst))) \o src]}

\* replacement.h:31-40: ReplacementElitist::operator(): the set of results
\* [src, dst] of one call, one for each result of the sort.
ReplacementElitist(size, src, dst) ==
  LET count == SelectionSizeCall(size, Len(dst))
  IN  {[src |-> <<>>, dst |-> Resize(sorted, count) \o src] :
         sorted \in SortDescending(dst)}

\* Sequences of length n of individuals with the data labels base+1..base+n
\* and fitness values of F.  The operators of this section never read data,
\* so distinct labels are the general case: they tell apart individuals of
\* equal fitness.
Labelled(n, base, F) ==
  {[i \in 1 .. n |-> [data |-> base + i, fitness |-> f[i]]] : f \in [1 .. n -> F]}

\* The destination holds clean or dirty individuals; the offspring pool holds
\* dirty offspring and unmodified copies (here of the best fitness).
InitReplVars ==
  /\ rp_size \in SelectionSizes
  /\ \E n \in 0 .. MaxPop : rp_dst \in Labelled(n, 0, -1 .. MaxFit)
  /\ \E m \in 0 .. MaxPool : rp_src \in Labelled(m, MaxPop + 1, {-1, MaxFit})
  /\ rp_src0 = <<>>
  /\ rp_dst0 = <<>>
  /\ rp_calls = 0

IdleRepl ==
  /\ rp_size = [count |-> 0, pnum |-> 0, pden |-> PctDen]
  /\ rp_src = <<>> /\ rp_dst = <<>> /\ rp_src0 = <<>> /\ rp_dst0 = <<>>
  /\ rp_calls = 0

ReplacementElitistCall ==
  /\ rp_calls = 0
  /\ \E r \in ReplacementElitist(rp_size, rp_src, rp_dst) :
       /\ rp_src' = r.src
       /\ rp_dst' = r.dst
  /\ rp_src0' = rp_src
  /\ rp_dst0' = rp_dst
  /\ rp_calls' = 1
  /\ UNCHANGED rp_size

\* ============================================================= Termination

\* std::max_element(pop.begin(), pop.end()) with operator< (population.h:58):
\* the position of the first individual of the largest fitness; 0 stands for
\* pop.end(), which an empty population gives.
MaxElement(pop) ==
  IF pop = <<>> THEN 0
  ELSE CHOOSE i \in 1 .. Len(pop) :
         /\ \A j \in 1 .. Len(pop) : pop[j].fitness <= pop[i].fitness
         /\ \A j \in 1 .. i - 1 : pop[j].fitness < pop[i].fitness

\* termination.h:59-63: a freshly constructed TerminationStagnation.
NewTerminationStagnation(max_generations) ==
  [max_generations |-> max_generations, curr_generation_ |-> 0, best_fitness_ |-> 0]

\* TerminationStagnation::operator() stopping only after the counter has
\* passed max_generations (mutant).
TerminationStagnationLate(t, pop) ==
  LET best == MaxElement(pop)
  IN  IF best = 0 THEN [t |-> t, result |-> TRUE]
      ELSE IF pop[best].fitness > t.best_fitness_
        THEN [t |-> [t EXCEPT !.best_fitness_ = pop[best].fitness,
                              !.curr_generation_ = 0],
              result |-> FALSE]
        ELSE [t |-> [t EXCEPT !.curr_generation_ = @ + 1],
              result |-> t.curr_generation_ + 1 > t.max_generations]

\* termination.h:69-84: TerminationStagnation::operator(): the predicate after
\* the call and the value returned.
TerminationStagnation(t, pop) ==
  LET best == MaxElement(pop)
  IN  IF best = 0 THEN [t |-> t, result |-> TRUE]
      ELSE IF pop[best].fitness > t.best_fitness_
        THEN [t |-> [t EXCEPT !.best_fitness_ = pop[best].fitness,
                              !.curr_generation_ = 0],
              result |-> FALSE]
        ELSE [t |-> [t EXCEPT !.curr_generation_ = @ + 1],
              result |-> t.curr_generation_ + 1 >= t.max_generations]

\* The entry of st_hist for a call on an empty population.
EmptyPop == DefaultIndividual.fitness - 1

InitStagVars ==
  /\ \E m \in 1 .. MaxGen : st = NewTerminationStagnation(m)
  /\ st_result = "none"
  /\ st_hist = <<>>

IdleStag ==
  /\ st = NewTerminationStagnation(0) /\ st_result = "none" /\ st_hist = <<>>

\* A driver asks the predicate about its current population.
StagnationCall ==
  /\ Len(st_hist) < MaxStagCalls
  /\ \E n \in 0 .. MaxTermPop : \E pop \in Labelled(n, 0, -1 .. MaxFit) :
       LET r == TerminationStagnation(st, pop)
       IN  /\ st' = r.t
           /\ st_result' = r.result
           /\ st_hist' = Append(st_hist,
                IF pop = <<>> THEN EmptyPop ELSE pop[MaxElement(pop)].fitness)

\* =============================================================== Selection

\* selection.h:87-90 and 124-127: the sum of the fitness values of src.
RECURSIVE TotalFitness(_)
TotalFitness(src) ==
  IF src = <<>> THEN 0
  ELSE TotalFitness(SubSeq(src, 1, Len(src) - 1)) + src[Len(src)].fitness

\* selection.h:81-85: the prefix sums; cum[i+1] here is cum_fitness[i].
CumFitness(src) == [i \in 1 .. Len(src) |-> TotalFitness(SubSeq(src, 1, i))]

\* The values uniform_real_distribution<F>(0.0, total_fitness) gives, as
\* numerators over DrawDen: the multiples of 1/DrawDen in [0, total).  With
\* integer fitness values they fall on every prefix sum and inside every
\* segment.  With total_fitness = 0 the distribution gives 0.0.
RouletteDraws(total) == IF total > 0 THEN 0 .. total * DrawDen - 1 ELSE {0}

\* selection.h:97-99: std::distance(begin, std::lower_bound(begin, end, d)):
\* the C++ index of the first prefix sum >= the draw d / DrawDen, and the
\* size when there is none.
RouletteIndex(cum, d) ==
  LET hit == {i \in 1 .. Len(cum) : cum[i] * DrawDen >= d}
  IN  IF hit = {} THEN Len(cum)
      ELSE (CHOOSE i \in hit : \A j \in hit : i <= j) - 1

\* selection.h:73-102: SelectionRouletteWheel::operator(): the results of one
\* call, one for each sequence of draws.  pick.zero records a draw of 0.0.
SelectionRouletteWheel(size, src, dst, cum0) ==
  IF src = <<>> THEN {[dst |-> dst, cum |-> cum0, rand |-> <<>>]}
  ELSE
    LET cum == CumFitness(src)
        total == TotalFitness(src)
        samples == SelectionSizeCall(size, Len(src))
        picks == {[index |-> RouletteIndex(cum, d), zero |-> (d = 0)] :
                    d \in RouletteDraws(total)}
    IN  {[dst |-> dst \o [i \in 1 .. samples |-> src[r[i].index + 1]],
          cum |-> cum, rand |-> r] : r \in [1 .. samples -> picks]}

\* The offsets uniform_real_distribution<F>() gives in [0, 1), as numerators
\* over SusDen(total): fine enough to fall on every multiple of 1/total and
\* between two of them.  The numerator SusDen(total) stands for the largest
\* value of F below 1 (1 - 2^-53 for double, 1 - 2^-24 for float), which the
\* distribution also gives.
SusDen(total) == IF total > 0 THEN DrawDen * total ELSE DrawDen

\* selection.h:136: cum_exp > offset + index, where cum_exp is
\* samples * prefix / total and offset is o / SusDen(total).  With
\* total_fitness = 0 every term added to cum_exp is 0/0 or x/0 with x = 0: a
\* NaN, and a comparison with a NaN is false.  The sum offset + index is
\* rounded to F: for the largest offset below 1 and index >= 1 it is
\* index + 1 (half an ulp or less away; the tie at index = 1 goes to the even
\* significand of 2), and for index = 0 it is the offset itself, which
\* cum_exp, a multiple of 1/total, exceeds when it is at least 1.
SusPointerPassed(samples, prefix, total, o, index) ==
  IF total = 0 THEN FALSE
  ELSE IF o = SusDen(total)
    THEN IF index = 0 THEN samples * prefix >= total
         ELSE samples * prefix > (index + 1) * total
  ELSE samples * prefix * SusDen(total) > (o + index * SusDen(total)) * total

\* selection.h:136-139: the while loop at src[i]: the individuals appended.
RECURSIVE SusWhile(_, _, _, _, _, _)
SusWhile(samples, prefix, total, o, index, ind) ==
  IF SusPointerPassed(samples, prefix, total, o, index)
    THEN <<ind>> \o SusWhile(samples, prefix, total, o, index + 1, ind)
    ELSE <<>>

\* selection.h:134-140: the loop over src from position i (1-based), index
\* individuals appended so far.
RECURSIVE SusLoop(_, _, _, _, _, _)
SusLoop(src, samples, total, o, i, index) ==
  IF i > Len(src) THEN <<>>
  ELSE LET prefix == TotalFitness(SubSeq(src, 1, i))
           added == SusWhile(samples, prefix, total, o, index, src[i])
       IN  added \o SusLoop(src, samples, total, o, i + 1, index + Len(added))

\* selection.h:119-141: SelectionSus::operator(): the results of one call, one
\* for each offset.
SelectionSus(size, src, dst) ==
  LET samples == SelectionSizeCall(size, Len(src))
      total == TotalFitness(src)
  IN  {[dst |-> dst \o SusLoop(src, samples, total, o, 1, 0),
        rand |-> <<o, SusDen(total)>>] : o \in 0 .. SusDen(total)}

\* selection.h:27-34: SelectionRandom::operator(): the results of one call,
\* one for each sequence of indices drawn from 0 .. src.size() - 1.  On an
\* empty source the sample count is 0 and the loop has no pass.
SelectionRandom(size, src, dst) ==
  LET samples == SelectionSizeCall(size, Len(src))
  IN  {[dst |-> dst \o [i \in 1 .. samples |-> src[r[i] + 1]], rand |-> r] :
         r \in [1 .. samples -> 0 .. Len(src) - 1]}

\* selection.h:47-54: SelectionTruncate::operator(): src is sorted in place
\* and its first samples individuals are appended to dst.
SelectionTruncate(size, src, dst) ==
  {[src |-> sorted,
    dst |-> dst \o SubSeq(sorted, 1, SelectionSizeCall(size, Len(src)))] :
     sorted \in SortDescending(src)}

\* selection.h:166-172: one tournament: best is the first draw, and each
\* later draw replaces it when its fitness is greater; from draw j on.
RECURSIVE TournamentBest(_, _, _, _)
TournamentBest(src, draws, j, best) ==
  IF j > Len(draws) THEN best
  ELSE TournamentBest(src, draws, j + 1,
         IF src[draws[j] + 1].fitness > src[best + 1].fitness THEN draws[j]
         ELSE best)

\* selection.h:159-176: SelectionTournament::operator(): the results of one
\* call, one for each sequence of tournament winners.  The assert on
\* tournament_size holds for the sizes 1 .. MaxTournament.
SelectionTournament(size, tsize, src, dst) ==
  LET samples == SelectionSizeCall(size, Len(src))
      winners == {TournamentBest(src, d, 2, d[1]) :
                    d \in [1 .. tsize -> 0 .. Len(src) - 1]}
  IN  {[dst |-> dst \o [i \in 1 .. samples |-> src[r[i] + 1]], rand |-> r] :
         r \in [1 .. samples -> winners]}

\* The source is an evaluated population (fitness >= 0: the GA evaluates
\* before it selects, ga.h:74-77); the destination is empty (ga.h:76) or
\* holds an individual already.
InitSelVars ==
  /\ sel_op \in {"random", "truncate", "roulette", "sus", "tournament"}
  /\ sel_size \in SelectionSizes
  /\ tournament_size \in IF sel_op = "tournament" THEN 1 .. MaxTournament ELSE {0}
  /\ \E n \in 0 .. MaxSelSrc : sel_src \in Labelled(n, 0, 0 .. MaxFit)
  /\ sel_src0 = sel_src
  /\ sel_dst \in {<<>>, <<[data |-> 0, fitness |-> 0]>>}
  /\ sel_dst0 = sel_dst
  /\ cum_fitness = <<>>
  /\ sel_rand = <<>>
  /\ sel_outcome = "none"

IdleSel ==
  /\ sel_op = "none"
  /\ sel_size = [count |-> 0, pnum |-> 0, pden |-> PctDen]
  /\ tournament_size = 0
  /\ sel_src = <<>> /\ sel_src0 = <<>> /\ sel_dst = <<>> /\ sel_dst0 = <<>>
  /\ cum_fitness = <<>> /\ sel_rand = <<>> /\ sel_outcome = "none"

RandomCall ==
  /\ sel_op = "random"
  /\ sel_outcome = "none"
  /\ \E r \in SelectionRandom(sel_size, sel_src, sel_dst) :
       /\ sel_dst' = r.dst
       /\ sel_rand' = r.rand
  /\ sel_outcome' = "returned"
  /\ UNCHANGED <<sel_op, sel_size, tournament_size, sel_src, sel_src0, sel_dst0,
                 cum_fitness>>

TruncateCall ==
  /\ sel_op = "truncate"
  /\ sel_outcome = "none"
  /\ \E r \in SelectionTruncate(sel_size, sel_src, sel_dst) :
       /\ sel_src' = r.src
       /\ sel_dst' = r.dst
  /\ sel_outcome' = "returned"
  /\ UNCHANGED <<sel_op, sel_size, tournament_size, sel_src0, sel_dst0,
                 cum_fitness, sel_rand>>

RouletteWheelCall ==
  /\ sel_op = "roulette"
  /\ sel_outcome = "none"
  /\ \E r \in SelectionRouletteWheel(sel_size, sel_src, sel_dst, cum_fitness) :
       /\ sel_dst' = r.dst
       /\ cum_fitness' = r.cum
       /\ sel_rand' = r.rand
  /\ sel_outcome' = "returned"
  /\ UNCHANGED <<sel_op, sel_size, tournament_size, sel_src, sel_src0, sel_dst0>>

SusCall ==
  /\ sel_op = "sus"
  /\ sel_outcome = "none"
  /\ \E r \in SelectionSus(sel_size, sel_src, sel_dst) :
       /\ sel_dst' = r.dst
       /\ sel_rand' = r.rand
  /\ sel_outcome' = "returned"
  /\ UNCHANGED <<sel_op, sel_size, tournament_size, sel_src, sel_src0, sel_dst0,
                 cum_fitness>>

TournamentCall ==
  /\ sel_op = "tournament"
  /\ sel_outcome = "none"
  /\ \E r \in SelectionTournament(sel_size, tournament_size, sel_src, sel_dst) :
       /\ sel_dst' = r.dst
       /\ sel_rand' = r.rand
  /\ sel_outcome' = "returned"
  /\ UNCHANGED <<sel_op, sel_size, tournament_size, sel_src, sel_src0, sel_dst0,
                 cum_fitness>>

\* =============================================================== Migration

\* std::shuffle(src.begin(), src.end(), rng): every order of src.
Shuffle(pop) == Reorderings(pop)

\* MigrationRing's loop body leaving the migrants on the source island as
\* well (mutant: the erase forgotten).
MigrationRingIslandNoErase(size, isl, i) ==
  LET index == IF i + 1 >= Len(isl) THEN 0 ELSE i + 1
  IN  {LET count == SelectionSizeCall(size, Len(src))
           shuffled == [isl EXCEPT ![i + 1] = src]
       IN  [shuffled EXCEPT ![index + 1] =
              @ \o SubSeq(src, Len(src) - count + 1, Len(src))] :
         src \in Shuffle(isl[i + 1])}

\* migration.h:58-69: the body of MigrationRing's loop for the island of C++
\* index i: the vectors of populations it can leave.
MigrationRingIsland(size, isl, i) ==
  LET index == IF i + 1 >= Len(isl) THEN 0 ELSE i + 1
  IN  {LET count == SelectionSizeCall(size, Len(src))
           shuffled == [isl EXCEPT ![i + 1] = src]
           moved == [shuffled EXCEPT ![index + 1] =
                       @ \o SubSeq(src, Len(src) - count + 1, Len(src))]
       IN  [moved EXCEPT ![i + 1] = SubSeq(@, 1, Len(@) - count)] :
         src \in Shuffle(isl[i + 1])}

\* migration.h:57: for (i = 0; i < islands.size(); ++i), from index i on, on
\* each vector of populations of S.
RECURSIVE MigrationRingFrom(_, _, _)
MigrationRingFrom(size, S, i) ==
  IF \A isl \in S : i >= Len(isl) THEN S
  ELSE MigrationRingFrom(size, UNION {MigrationRingIsland(size, isl, i) : isl \in S},
                         i + 1)

\* migration.h:52-70: MigrationRing::operator() (islands.size() > 1 is
\* asserted): the vectors of populations one call can leave.
MigrationRing(size, isl) == MigrationRingFrom(size, {isl}, 0)

\* The drawn island taken as it is, without the test index == i.
RandomTargetAsDrawn(i, draw) == draw

\* migration.h:34-37: the island a migrant of island i is pushed to, given
\* the draw of uniform_int_distribution(1, islands.size() - 1).
RandomTarget(i, draw) == IF draw = i THEN 0 ELSE draw

\* migration.h:33-40: the loop over the last count individuals of the
\* shuffled source, from the k-th of them on: each is pushed to the back of
\* the drawn island's population.
RECURSIVE MigrationRandomPush(_, _, _, _)
MigrationRandomPush(isl, i, k, count) ==
  IF k > count THEN {isl}
  ELSE LET src == isl[i + 1]
           it == src[Len(src) - count + k]
       IN  UNION {MigrationRandomPush(
                    [isl EXCEPT ![RandomTarget(i, draw) + 1] = Append(@, it)],
                    i, k + 1, count) : draw \in 1 .. Len(isl) - 1}

\* migration.h:28-43: the body of MigrationRandom's loop for the island of
\* C++ index i.
MigrationRandomIsland(size, isl, i) ==
  UNION {LET count == SelectionSizeCall(size, Len(src))
         IN  {[pushed EXCEPT ![i + 1] = SubSeq(@, 1, Len(@) - count)] :
                pushed \in MigrationRandomPush([isl EXCEPT ![i + 1] = src], i, 1, count)} :
           src \in Shuffle(isl[i + 1])}

\* migration.h:27: for (i = 0; i < islands.size(); ++i), from index i on.
RECURSIVE MigrationRandomFrom(_, _, _)
MigrationRandomFrom(size, S, i) ==
  IF \A isl \in S : i >= Len(isl) THEN S
  ELSE MigrationRandomFrom(size,
         UNION {MigrationRandomIsland(size, isl, i) : isl \in S}, i + 1)

\* migration.h:22-42: MigrationRandom::operator() (islands.size() > 1 is
\* asserted): the vectors of populations one call can leave.
MigrationRandom(size, isl) == MigrationRandomFrom(size, {isl}, 0)

\* The individuals labelled by S, in the order of their labels.  They are
\* dirty, as test_island_model.cc:42-46 creates them; migration reads neither
\* field.
RECURSIVE InLabelOrder(_)
InLabelOrder(S) ==
  IF S = {} THEN <<>>
  ELSE LET m == CHOOSE x \in S : \A y \in S : y <= x
       IN  Append(InLabelOrder(S \ {m}), [data |-> m, fitness |-> -1])

\* The numbers of islands: the least the operators accept, and one more, where
\* the successor of an island is not also its predecessor.
IslandCounts == {2, 3}

\* The SelectionSizes of a migration operator: the counts 1 and 2 and the
\* percentages 0, 1/2 and 1.
MigrationSizes ==
  {sz \in SelectionSizes :
     /\ sz.count <= 2
     /\ sz.pnum \in {0, sz.pden} \/ 2 * sz.pnum = sz.pden}

\* At least two islands hold the individuals 1..K between them.
InitMigVars ==
  /\ mg_op \in {"random", "ring"}
  /\ mg_size \in MigrationSizes
  /\ \E n \in IslandCounts : \E K \in 0 .. MaxMigInd : \E a \in [1 .. K -> 1 .. n] :
       /\ mg_islands = [j \in 1 .. n |-> InLabelOrder({k \in 1 .. K : a[k] = j})]
       /\ mg_all = InLabelOrder(1 .. K)
  /\ mg_before = mg_islands
  /\ mg_called = FALSE

IdleMig ==
  /\ mg_op = "none"
  /\ mg_size = [count |-> 0, pnum |-> 0, pden |-> PctDen]
  /\ mg_islands = <<>> /\ mg_all = <<>> /\ mg_before = <<>> /\ mg_called = FALSE

MigrationRandomCall ==
  /\ mg_op = "random"
  /\ mg_islands' \in MigrationRandom(mg_size, mg_islands)
  /\ mg_before' = mg_islands
  /\ mg_called' = TRUE
  /\ UNCHANGED <<mg_op, mg_size, mg_all>>

MigrationRingCall ==
  /\ mg_op = "ring"
  /\ mg_islands' \in MigrationRing(mg_size, mg_islands)
  /\ mg_before' = mg_islands
  /\ mg_called' = TRUE
  /\ UNCHANGED <<mg_op, mg_size, mg_all>>

\* ======================================================= Genetic algorithm

\* The representations of the drivers: the bit vectors of length n.
Bits(n) == [1 .. n -> BOOLEAN]

\* ga.h:46: the evaluation functor the caller supplies: here the number of
\* set bits, a deterministic evaluator whose values are >= 0.
RECURSIVE EvaluationFunc(_)
EvaluationFunc(data) ==
  IF Len(data) = 0 THEN 0
  ELSE EvaluationFunc(SubSeq(data, 1, Len(data) - 1))
         + (IF data[Len(data)] THEN 1 ELSE 0)

\* population.h:66-74: Evaluate: the evaluator is applied to the dirty
\* individuals only.
Evaluate(pop) ==
  [k \in 1 .. Len(pop) |->
     IF is_dirty(pop[k]) THEN [pop[k] EXCEPT !.fitness = EvaluationFunc(pop[k].data)]
     ELSE pop[k]]

\* The values std::bernoulli_distribution(p) can give, p = k/PctDen.
Bernoulli(k) == IF k = 0 THEN {FALSE} ELSE IF k = PctDen THEN {TRUE} ELSE BOOLEAN

\* selection.h:184: FitnessRankLinear::operator()(rank, size): size - rank.
FitnessRankLinear(rank, size) == size - rank

\* selection.h:211-215: SelectionRank::operator(): tmp = src, sorted by
\* descending fitness, each fitness then overwritten by the rank fitness of
\* its position (rank 0 is the best): every tmp the sort can leave.
SelectionRankTmp(src) ==
  {[i \in 1 .. Len(sorted) |->
      [sorted[i] EXCEPT !.fitness = FitnessRankLinear(i - 1, Len(sorted))]] :
     sorted \in SortDescending(src)}

\* A real number tenths/10 + a/(2*sqrt(d)), d > 0, held exactly.
Real(tenths, a, d) == [tenths |-> tenths, a |-> a, d |-> d]

\* Whether the real number x is the integer v: with c = 10*v - tenths,
\* c*sqrt(d) = 5*a.
RealIsInt(x, v) ==
  LET c == 10 * v - x.tenths
  IN  /\ (c > 0) = (x.a > 0)
      /\ (c < 0) = (x.a < 0)
      /\ c * c * x.d = 25 * x.a * x.a

\* selection.h:224-231: FitnessSigmaDefault::operator()(fitness, mean,
\* std_dev), for a population of n individuals whose fitness values have the
\* sum sum and the sum of squares sq (selection.h:262-273): mean = sum/n and
\* std_dev = sqrt(sq/n - mean^2).  With a = n*(fitness - mean) and
\* d = (n*std_dev)^2 the value is 1.0 when std_dev is 0, else
\* 1 + a/(2*sqrt(d)) when that is positive, else 0.1.
FitnessSigmaDefault(fitness, n, sum, sq) ==
  LET a == n * fitness - sum
      d == n * sq - sum * sum
  IN  IF d = 0 THEN Real(10, 0, 1)
      ELSE IF a >= 0 \/ a * a < 4 * d THEN Real(10, a, d)
      ELSE Real(1, 0, 1)

\* The sum of the squares of the fitness values of src.
RECURSIVE SquareFitness(_)
SquareFitness(src) ==
  IF src = <<>> THEN 0
  ELSE src[1].fitness * src[1].fitness + SquareFitness(Tail(src))

\* selection.h:257, 262-277: SelectionSigma::operator() on a source that is
\* not empty: tmp = src, each fitness overwritten by its scaled value.
SelectionSigmaTmp(src) ==
  [i \in 1 .. Len(src) |->
     [src[i] EXCEPT !.fitness =
        FitnessSigmaDefault(src[i].fitness, Len(src), TotalFitness(src),
                            SquareFitness(src))]]

\* ga.h:77: selection(pop, tmp, rng), for the selection functor sel: the
\* results [src, dst, cum], cum being the thread_local prefix sums of
\* SelectionRouletteWheel.  SelectionRank (selection.h:207-218) and
\* SelectionSigma (selection.h:253-280) hand their own copy of src to the
\* functor they wrap and leave src alone; SelectionSigma returns at once on
\* an empty source (selection.h:258-260).
RECURSIVE GaSelection(_, _, _, _)
GaSelection(sel, src, dst, cum) ==
  IF sel.kind = "rank"
    THEN UNION {{[src |-> src, dst |-> r.dst, cum |-> r.cum] :
                   r \in GaSelection(sel.selection, t, dst, cum)} :
                  t \in SelectionRankTmp(src)}
  ELSE IF sel.kind = "sigma"
    THEN IF src = <<>> THEN {[src |-> src, dst |-> dst, cum |-> cum]}
         ELSE {[src |-> src, dst |-> r.dst, cum |-> r.cum] :
                 r \in GaSelection(sel.selection, SelectionSigmaTmp(src), dst, cum)}
  ELSE IF sel.kind = "random"
    THEN {[src |-> src, dst |-> r.dst, cum |-> cum] :
            r \in SelectionRandom(sel.size, src, dst)}
  ELSE IF sel.kind = "truncate"
    THEN {[src |-> r.src, dst |-> r.dst, cum |-> cum] :
            r \in SelectionTruncate(sel.size, src, dst)}
  ELSE IF sel.kind = "roulette"
    THEN {[src |-> src, dst |-> r.dst, cum |-> r.cum] :
            r \in SelectionRouletteWheel(sel.size, src, dst, cum)}
  ELSE {[src |-> src, dst |-> r.dst, cum |-> cum] :
          r \in SelectionSus(sel.size, src, dst)}

\* crossover.h:41-49: CrossoverUniform::operator(): each of the first
\* min(size0, size1) positions is exchanged or not.
CrossoverUniform(v0, v1) ==
  LET size == Min(Len(v0), Len(v1))
  IN  {<<[k \in 1 .. Len(v0) |-> IF k <= size /\ m[k] THEN v1[k] ELSE v0[k]],
         [k \in 1 .. Len(v1) |-> IF k <= size /\ m[k] THEN v0[k] ELSE v1[k]]>> :
         m \in [1 .. size -> BOOLEAN]}

\* mutation.h:24-31: MutationFlip::operator(): each bit is flipped or not, as
\* bernoulli_distribution(prob) decides.
MutationFlip(prob, value) ==
  {[k \in 1 .. Len(value) |-> IF m[k] THEN ~value[k] ELSE value[k]] :
     m \in [1 .. Len(value) -> Bernoulli(prob)]}

\* The mutation of a child without the call of mark_dirty().
GaMutateKeepsFitness(g, child) ==
  UNION {IF b THEN {[ind |-> [child EXCEPT !.data = d], applied |-> TRUE] :
                      d \in MutationFlip(g.mutation_prob, child.data)}
              ELSE {[ind |-> child, applied |-> FALSE]} :
           b \in Bernoulli(g.mutation_rate)}

\* ga.h:95-98 and 100-103: if (mutation_dist(rng)) { mutation(child.data);
\* child.mark_dirty(); }: the child it leaves, and whether the mutation
\* operator was applied.
GaMutate(g, child) ==
  UNION {IF b THEN {[ind |-> mark_dirty([child EXCEPT !.data = d]), applied |-> TRUE] :
                      d \in MutationFlip(g.mutation_prob, child.data)}
              ELSE {[ind |-> child, applied |-> FALSE]} :
           b \in Bernoulli(g.mutation_rate)}

\* ga.h:86-103: the body of the loop over the pairs: the children it can
\* leave, each with whether crossover or mutation was applied to it.
GaPair(g, child0, child1) ==
  LET crossed ==
        UNION {IF b THEN {[c0 |-> mark_dirty([child0 EXCEPT !.data = d[1]]),
                           c1 |-> mark_dirty([child1 EXCEPT !.data = d[2]]),
                           applied |-> TRUE] :
                            d \in CrossoverUniform(child0.data, child1.data)}
                    ELSE {[c0 |-> child0, c1 |-> child1, applied |-> FALSE]} :
                 b \in Bernoulli(g.crossover_rate)}
  IN  UNION {{[c0 |-> m0.ind, c1 |-> m1.ind,
               t0 |-> p.applied \/ m0.applied, t1 |-> p.applied \/ m1.applied] :
                m0 \in GaMutate(g, p.c0), m1 \in GaMutate(g, p.c1)} :
               p \in crossed}

\* ga.h:85: for (i = 0; i < tmp.size() / 2; ++i), from index i on, on each
\* pool of S: the pools it leaves, each with the positions (1-based) an
\* operator was applied to.
RECURSIVE GaPairsFrom(_, _, _, _)
GaPairsFrom(g, S, i, size) ==
  IF i >= size \div 2 THEN S
  ELSE GaPairsFrom(g,
         UNION {{[pool |-> [t.pool EXCEPT ![2 * i + 1] = p.c0, ![2 * i + 2] = p.c1],
                  touched |-> t.touched
                                \cup (IF p.t0 THEN {2 * i + 1} ELSE {})
                                \cup (IF p.t1 THEN {2 * i + 2} ELSE {})] :
                   p \in GaPair(g, t.pool[2 * i + 1], t.pool[2 * i + 2])} : t \in S},
         i + 1, size)

\* ga.h:106: replacement(tmp, pop, rng), for the replacement functor rep.
GaReplacement(rep, src, dst) ==
  IF rep.kind = "all" THEN ReplacementAll(src, dst)
  ELSE ReplacementElitist(rep.size, src, dst)

\* termination.h:16-17: a freshly constructed TerminationGeneration.
NewTerminationGeneration(max_generations) ==
  [kind |-> "generation", max_generations |-> max_generations,
   curr_generation_ |-> 0, target_fitness |-> 0, best_fitness_ |-> 0]

\* termination.h:35-36: a TerminationFitness.
NewTerminationFitness(target_fitness) ==
  [kind |-> "fitness", max_generations |-> 0, curr_generation_ |-> 0,
   target_fitness |-> target_fitness, best_fitness_ |-> 0]

\* termination.h:59-63: a freshly constructed TerminationStagnation, as the
\* termination functor of a driver.
NewStagnation(max_generations) ==
  [kind |-> "stagnation", max_generations |-> max_generations,
   curr_generation_ |-> 0, target_fitness |-> 0, best_fitness_ |-> 0]

\* termination.h:23-26: TerminationGeneration::operator().
TerminationGeneration(t, pop) ==
  [t |-> [t EXCEPT !.curr_generation_ = @ + 1],
   result |-> t.curr_generation_ + 1 >= t.max_generations]

\* termination.h:42-49: TerminationFitness::operator().
TerminationFitness(t, pop) ==
  LET best == MaxElement(pop)
  IN  [t |-> t,
       result |-> IF best = 0 THEN TRUE ELSE pop[best].fitness >= t.target_fitness]

\* ga.h:107 and eda.h:54: termination(pop, rng), for the termination functor t.
Termination(t, pop) ==
  IF t.kind = "generation" THEN TerminationGeneration(t, pop)
  ELSE IF t.kind = "fitness" THEN TerminationFitness(t, pop)
  ELSE TerminationStagnation(t, pop)

\* ga.h:65-108: Ga::operator()(pop, rng): the results of one step: the
\* instance (its termination functor has state), the population, the
\* thread_local pool tmp, the prefix sums and the value returned.  The asserts
\* on the two rates hold for every instance of GaConfigs.  Each result also
\* records the way the step took: "empty" (ga.h:70-72), "no_pool"
\* (ga.h:78-80) or "full"; the pool as shuffled (ga.h:82), the pool handed to
\* the replacement functor (ga.h:106) with the positions an operator was
\* applied to, and the population handed to the termination functor
\* (ga.h:107).
GaStep(g, pop, tmp0, cum0) ==
  IF pop = <<>>
    THEN {[ga |-> g, pop |-> pop, tmp |-> tmp0, cum |-> cum0, result |-> TRUE,
           path |-> "empty", shuffled |-> <<>>, pool |-> <<>>, touched |-> {}]}
  ELSE
    UNION {
      IF s.dst = <<>>
        THEN {[ga |-> g, pop |-> s.src, tmp |-> s.dst, cum |-> s.cum,
               result |-> FALSE,
               path |-> "no_pool", shuffled |-> <<>>, pool |-> <<>>, touched |-> {}]}
      ELSE
        UNION {UNION {
          {LET t == Termination(g.termination, r.dst)
           IN  [ga |-> [g EXCEPT !.termination = t.t], pop |-> r.dst,
                tmp |-> r.src, cum |-> s.cum, result |-> t.result,
                path |-> "full", shuffled |-> shuffled, pool |-> bred.pool,
                touched |-> bred.touched] :
             r \in GaReplacement(g.replacement, bred.pool, s.src)} :
          bred \in GaPairsFrom(g, {[pool |-> shuffled, touched |-> {}]}, 0,
                               Len(shuffled))} :
        shuffled \in Shuffle(s.dst)} :
      s \in GaSelection(g.selection, Evaluate(pop), Clear(tmp0), cum0)}

\* The name of a returned bool.
BoolName(b) == IF b THEN "true" ELSE "false"

\* The sizes of the drivers' operators: nothing, one individual, everything.
DriverSizes ==
  {sz \in SelectionSizes : sz.count <= 1 /\ sz.pnum \in {0, sz.pden}}

\* The pairs <<mutation_rate, crossover_rate>>, as numerators over PctDen:
\* both operators applied to some pairs, or one of them to every pair and
\* the other to none.
GaRates == {<<1, 1>>, <<0, PctDen>>, <<PctDen, 0>>}

\* The termination functors of the drivers.
Terminations ==
  {NewTerminationGeneration(MaxDriverCalls), NewTerminationFitness(RepLen),
   NewStagnation(1)}

\* ga.h:23-37: the instances: Ga(mutation_rate, crossover_rate, evaluation,
\* selection, crossover, mutation, replacement, termination) with
\* CrossoverUniform and MutationFlip(1/PctDen).
GaConfigs ==
  {[mutation_rate |-> rates[1], crossover_rate |-> rates[2],
    selection |-> [kind |-> sk, size |-> ssz], mutation_prob |-> 1,
    replacement |-> rep, termination |-> t] :
     rates \in GaRates, sk \in {"truncate", "roulette", "sus"},
     ssz \in DriverSizes,
     rep \in {[kind |-> "all", size |-> [count |-> 0, pnum |-> 0, pden |-> PctDen]],
              [kind |-> "elitist", size |-> [count |-> 1, pnum |-> 0, pden |-> PctDen]]},
     t \in Terminations}

\* No instance.
NoGa ==
  [mutation_rate |-> 0, crossover_rate |-> 0,
   selection |-> [kind |-> "none", size |-> [count |-> 0, pnum |-> 0, pden |-> PctDen]],
   mutation_prob |-> 0,
   replacement |-> [kind |-> "none", size |-> [count |-> 0, pnum |-> 0, pden |-> PctDen]],
   termination |-> NewTerminationGeneration(0)]

\* The instances whose selection functor is a decorator: SelectionRank
\* (with the rank fitness size - rank) around SelectionTruncate,
\* SelectionRouletteWheel or SelectionSus, and SelectionSigma around
\* SelectionRandom, which does not read the scaled fitness.  The rates are
\* those of GaRates or both 0 (no offspring is changed); the instances with
\* SelectionSigma have both rates 0 and ReplacementAll.  All stop after one
\* generation.
DecoratedConfigs ==
  {[mutation_rate |-> rates[1], crossover_rate |-> rates[2],
    selection |-> [kind |-> "rank", selection |-> [kind |-> sk, size |-> ssz]],
    mutation_prob |-> 1, replacement |-> rep,
    termination |-> NewTerminationGeneration(1)] :
     rates \in GaRates \cup {<<0, 0>>}, sk \in {"truncate", "roulette", "sus"},
     ssz \in DriverSizes,
     rep \in {[kind |-> "all", size |-> [count |-> 0, pnum |-> 0, pden |-> PctDen]],
              [kind |-> "elitist", size |-> [count |-> 1, pnum |-> 0, pden |-> PctDen]]}}
  \cup
  {[mutation_rate |-> 0, crossover_rate |-> 0,
    selection |-> [kind |-> "sigma", selection |-> [kind |-> "random", size |-> ssz]],
    mutation_prob |-> 1,
    replacement |-> [kind |-> "all", size |-> [count |-> 0, pnum |-> 0, pden |-> PctDen]],
    termination |-> NewTerminationGeneration(1)] :
     ssz \in DriverSizes}

\* The populations of n dirty individuals with representations of length len
\* (test_ga.cc:32-36: a resized population whose data is then filled in).
DirtyPops(n, len) == [1 .. n -> {[data |-> d, fitness |-> -1] : d \in Bits(len)}]

InitGaVars ==
  /\ ga \in GaConfigs
  /\ \E n \in 0 .. MaxGaPop : ga_pop \in DirtyPops(n, RepLen)
  /\ tmp = <<>>
  /\ ga_pop0 = <<>>
  /\ ga_result = "none"
  /\ ga_calls = 0
  /\ ga_path = "none"
  /\ ga_shuffled = <<>>
  /\ ga_pool = <<>>
  /\ ga_touched = {}

IdleGa ==
  /\ ga = NoGa /\ ga_pop = <<>> /\ tmp = <<>> /\ ga_pop0 = <<>>
  /\ ga_result = "none" /\ ga_calls = 0
  /\ ga_path = "none" /\ ga_shuffled = <<>> /\ ga_pool = <<>> /\ ga_touched = {}

\* One call of Ga::operator() on the population.
GaStepCall ==
  /\ ga.selection.kind # "none"
  /\ ga_calls < MaxDriverCalls
  /\ \E r \in GaStep(ga, ga_pop, tmp, cum_fitness) :
       /\ ga' = r.ga
       /\ ga_pop' = r.pop
       /\ tmp' = r.tmp
       /\ cum_fitness' = r.cum
       /\ ga_result' = BoolName(r.result)
       /\ ga_path' = r.path
       /\ ga_shuffled' = r.shuffled
       /\ ga_pool' = r.pool
       /\ ga_touched' = r.touched
  /\ ga_pop0' = ga_pop
  /\ ga_calls' = ga_calls + 1
  /\ UNCHANGED varsSelRest

\* ga.h:110-114: Ga::Run: one more pass of while (!operator()(pop, rng)) {},
\* taken while no step has returned true.
GaRunStep ==
  /\ ga_result # "true"
  /\ GaStepCall

\* ================================================================ Evaluate

\* Evaluate's loop invoking the evaluator on every individual, clean or not
\* (mutant).
RECURSIVE EvaluateLoopAll(_, _, _)
EvaluateLoopAll(pop, i, log) ==
  IF i >= Len(pop) THEN [pop |-> pop, log |-> log]
  ELSE EvaluateLoopAll(
         [pop EXCEPT ![i + 1].fitness = EvaluationFunc(pop[i + 1].data)],
         i + 1, Append(log, i))

\* population.h:68-73: for (auto& it : pop) if (it.is_dirty()) it.fitness =
\* func(it.data, rng), from the individual of C++ index i on: the population
\* it leaves and the invocations of func, in order.  The assert holds:
\* EvaluationFunc is >= 0.
RECURSIVE EvaluateLoop(_, _, _)
EvaluateLoop(pop, i, log) ==
  IF i >= Len(pop) THEN [pop |-> pop, log |-> log]
  ELSE IF is_dirty(pop[i + 1])
    THEN EvaluateLoop(
           [pop EXCEPT ![i + 1].fitness = EvaluationFunc(pop[i + 1].data)],
           i + 1, Append(log, i))
    ELSE EvaluateLoop(pop, i + 1, log)

\* The individuals Evaluate is given: dirty ones, and clean ones whose stored
\* fitness is any value >= 0 (a value an evaluator stored earlier).
EvalIndividuals ==
  {[data |-> d, fitness |-> f] : d \in Bits(RepLen), f \in -1 .. MaxFit}

InitEvalVars ==
  /\ \E n \in 0 .. MaxEvalPop : ev_pop \in [1 .. n -> EvalIndividuals]
  /\ ev_pop0 = <<>>
  /\ ev_log = <<>>
  /\ ev_calls = 0

IdleEval ==
  /\ ev_pop = <<>> /\ ev_pop0 = <<>> /\ ev_log = <<>> /\ ev_calls = 0

\* One call of Evaluate(pop, func, rng).
EvaluateCall ==
  /\ ev_calls < MaxEvalCalls
  /\ LET r == EvaluateLoop(ev_pop, 0, <<>>)
     IN  /\ ev_pop' = r.pop
         /\ ev_log' = r.log
  /\ ev_pop0' = ev_pop
  /\ ev_calls' = ev_calls + 1

\* ================================================ Estimation of distribution

\* ProbT arithmetic (pbil.h:72-87), exact: a probability is the fraction n/d
\* in lowest terms.
RECURSIVE GCD(_, _)
GCD(a, b) == IF b = 0 THEN a ELSE GCD(b, a % b)

Rat(n, d) == IF n = 0 THEN [n |-> 0, d |-> 1] ELSE [n |-> n \div GCD(n, d), d |-> d \div GCD(n, d)]

RatAdd(a, b) == Rat(a.n * b.d + b.n * a.d, a.d * b.d)
RatMul(a, b) == Rat(a.n * b.n, a.d * b.d)
RatOneMinus(a) == Rat(a.d - a.n, a.d)
RatLess(a, b) == a.n * b.d < b.n * a.d
RatMin(a, b) == IF RatLess(b, a) THEN b ELSE a
RatMax(a, b) == IF RatLess(a, b) THEN b ELSE a

\* pbil.h:17-19: PbilDist(): prob.fill(0.5).
NewPbilDist(size) == [k \in 1 .. size |-> Rat(1, 2)]

\* The values std::bernoulli_distribution(p) can give for the fraction p.
BernoulliRat(p) == IF p.n = 0 THEN {FALSE} ELSE IF p.n = p.d THEN {TRUE} ELSE BOOLEAN

\* pbil.h:25-30: PbilDist::operator()(value, rng): the representations one
\* sampling can give; prob is only read.
PbilDistSample(prob) ==
  {v \in Bits(Len(prob)) : \A k \in 1 .. Len(prob) : v[k] \in BernoulliRat(prob[k])}

\* pbil.h:74-78: the numbers of set bits the loop over pop[0..best_count-1]
\* can count at position i.  A read past the end of the population (possible
\* only where the assert is compiled out) is undefined and gives any bit.
PbilSetCounts(best_count, sorted, i) ==
  LET inside == {j \in 1 .. Min(best_count, Len(sorted)) : sorted[j].data[i]}
      outside == Max(best_count - Len(sorted), 0)
  IN  {Cardinality(inside) + x : x \in 0 .. outside}

\* The probability stored as computed.
ClampNone(p, lower_bound, upper_bound) == p

\* pbil.h:87: std::min(std::max(p, lower_bound), upper_bound).
Clamp(p, lower_bound, upper_bound) == RatMin(RatMax(p, lower_bound), upper_bound)

\* pbil.h:72-87: the values the loop body can give dist.prob[i].
PbilEntry(u, p, sorted, i) ==
  {LET learned == RatAdd(RatMul(p, RatOneMinus(u.rate)),
                         IF c = 0 THEN Rat(0, 1)
                         ELSE RatMul(Rat(c, u.best_count), u.rate))
       mutated == IF m = "no" THEN learned
                  ELSE IF m = "down" THEN RatMul(learned, RatOneMinus(u.mutation_shift))
                  ELSE RatAdd(RatMul(learned, RatOneMinus(u.mutation_shift)),
                              u.mutation_shift)
   IN  Clamp(mutated, u.lower_bound, u.upper_bound) :
     c \in PbilSetCounts(u.best_count, sorted, i),
     m \in {IF b THEN f ELSE "no" : b \in Bernoulli(u.mutation_prob), f \in {"down", "up"}}}

\* pbil.h:65-89: PbilUpdate::operator()(dist, pop, rng): the results
\* [prob, pop, outcome] of one call.  With the assert compiled in (ndebug
\* false, nd false) a best_count of 0 or above pop.size() aborts; with NDEBUG the call
\* goes on and reads past the end of pop when best_count > pop.size(), which
\* is undefined: it crashes or goes on with any bits.
PbilUpdate(u, prob, pop, nd) ==
  IF ~nd /\ ~(u.best_count > 0 /\ u.best_count <= Len(pop))
    THEN {[prob |-> prob, pop |-> pop, outcome |-> "assert"]}
  ELSE
    (IF u.best_count > Len(pop)
       THEN {[prob |-> prob, pop |-> pop, outcome |-> "undefined"]} ELSE {})
    \cup
    UNION {{[prob |-> q, pop |-> sorted, outcome |-> "ok"] :
              q \in {q \in [1 .. Len(prob) ->
                             UNION {PbilEntry(u, prob[k], sorted, k) : k \in 1 .. Len(prob)}] :
                       \A k \in 1 .. Len(prob) : q[k] \in PbilEntry(u, prob[k], sorted, k)}} :
             sorted \in SortDescending(pop)}

\* eda.h:43-55: Eda::operator()(dist, rng): the results of one step: the
\* instance, the probability vector, the thread_local population and how the
\* step ended: "true" or "false" returned, or the outcome of the update.
EdaStep(e, prob, pop0, nd) ==
  LET resized == Resize(Clear(pop0), e.pop_size)
  IN  UNION {
        UNION {
          IF u.outcome # "ok"
            THEN {[eda |-> e, prob |-> u.prob, pop |-> u.pop, result |-> u.outcome]}
            ELSE {LET t == Termination(e.termination, u.pop)
                  IN  [eda |-> [e EXCEPT !.termination = t.t], prob |-> u.prob,
                       pop |-> u.pop, result |-> BoolName(t.result)]} :
          u \in PbilUpdate(e.update, prob, Evaluate(sampled), nd)} :
        sampled \in {[k \in 1 .. e.pop_size |-> [resized[k] EXCEPT !.data = v[k]]] :
                      v \in [1 .. e.pop_size -> PbilDistSample(prob)]}}

\* eda.h:20-27 and pbil.h:36-44: the instances: Eda(pop_size, evaluation,
\* PbilUpdate(rate, best_count, mutation_prob, mutation_shift, lower_bound,
\* upper_bound), termination).
EdaConfigs ==
  {[pop_size |-> n,
    update |-> [rate |-> Rat(1, 2), best_count |-> bc, mutation_prob |-> mp,
                mutation_shift |-> Rat(1, 2), lower_bound |-> lu[1],
                upper_bound |-> lu[2]],
    termination |-> t] :
     n \in 0 .. MaxEdaPop, bc \in 0 .. MaxEdaPop, mp \in {0, 1},
     lu \in {<<Rat(0, 1), Rat(1, 1)>>, <<Rat(1, 4), Rat(3, 4)>>},
     t \in Terminations}

\* No instance.
NoEda ==
  [pop_size |-> 0,
   update |-> [rate |-> Rat(0, 1), best_count |-> 0, mutation_prob |-> 0,
               mutation_shift |-> Rat(0, 1), lower_bound |-> Rat(0, 1),
               upper_bound |-> Rat(0, 1)],
   termination |-> [NewTerminationGeneration(0) EXCEPT !.kind = "none"]]

InitEdaVars ==
  /\ eda \in EdaConfigs
  /\ ndebug \in BOOLEAN
  /\ dist = NewPbilDist(RepLen)
  /\ eda_pop = <<>>
  /\ eda_result = "none"
  /\ eda_calls = 0

IdleEda ==
  /\ eda = NoEda /\ ndebug = FALSE /\ dist = <<>> /\ eda_pop = <<>>
  /\ eda_result = "none" /\ eda_calls = 0

\* One call of Eda::operator() on the distribution.  A step that aborted or
\* crashed is the last one.
EdaStepCall ==
  /\ eda.termination.kind # "none"
  /\ eda_result \notin {"assert", "undefined"}
  /\ eda_calls < MaxDriverCalls
  /\ \E r \in EdaStep(eda, dist, eda_pop, ndebug) :
       /\ eda' = r.eda
       /\ dist' = r.prob
       /\ eda_pop' = r.pop
       /\ eda_result' = r.result
  /\ eda_calls' = eda_calls + 1
  /\ UNCHANGED ndebug

\* eda.h:58-61: Eda::Run: one more pass of while (!operator()(dist, rng)) {},
\* taken while no step has returned true.
EdaRunStep ==
  /\ eda_result # "true"
  /\ EdaStepCall

\* ------------------------------------------- PbilDist and PbilUpdate alone

\* pbil.h:36-44: the update objects: rate 1/2, mutation_shift 1/2, a
\* mutation that never happens or may happen, and bounds with
\* lower_bound <= upper_bound: the unit interval, an interval around the
\* initial 1/2, and a single point away from it.
PbilUpdates ==
  {[rate |-> Rat(1, 2), best_count |-> bc, mutation_prob |-> mp,
    mutation_shift |-> Rat(1, 2), lower_bound |-> lu[1], upper_bound |-> lu[2]] :
     bc \in 0 .. MaxPbilPop, mp \in {0, 1},
     lu \in {<<Rat(0, 1), Rat(1, 1)>>, <<Rat(1, 4), Rat(3, 4)>>,
             <<Rat(1, 1), Rat(1, 1)>>}}

\* The evaluated populations of at most MaxPbilPop individuals.
PbilPops ==
  UNION {[1 .. n -> {[data |-> d, fitness |-> EvaluationFunc(d)] : d \in Bits(RepLen)}] :
           n \in 0 .. MaxPbilPop}

InitPbilVars ==
  /\ pb_update \in PbilUpdates
  /\ pb_ndebug \in BOOLEAN
  /\ pb_prob = NewPbilDist(RepLen)
  /\ pb_prob0 = pb_prob
  /\ pb_value = <<>>
  /\ pb_last = "none"
  /\ pb_calls = 0

IdlePbil ==
  /\ pb_update = NoEda.update /\ pb_ndebug = FALSE /\ pb_prob = <<>>
  /\ pb_prob0 = <<>> /\ pb_value = <<>> /\ pb_last = "none" /\ pb_calls = 0

\* pbil.h:24-30: dist(value, rng): a representation is sampled.
PbilDistCall ==
  /\ pb_prob # <<>>
  /\ pb_last \notin {"assert", "undefined"}
  /\ pb_calls < MaxPbilCalls
  /\ pb_value' \in PbilDistSample(pb_prob)
  /\ pb_prob0' = pb_prob
  /\ pb_last' = "sample"
  /\ pb_calls' = pb_calls + 1
  /\ UNCHANGED <<pb_update, pb_ndebug, pb_prob>>

\* pbil.h:65-89: update(dist, pop, rng) on any evaluated population.  A call
\* that aborted or crashed is the last one.
PbilUpdateCall ==
  /\ pb_prob # <<>>
  /\ pb_last \notin {"assert", "undefined"}
  /\ pb_calls < MaxPbilCalls
  /\ \E pop \in PbilPops : \E u \in PbilUpdate(pb_update, pb_prob, pop, pb_ndebug) :
       /\ pb_prob' = u.prob
       /\ pb_last' = u.outcome
  /\ pb_prob0' = pb_prob
  /\ pb_calls' = pb_calls + 1
  /\ UNCHANGED <<pb_update, pb_ndebug, pb_value>>

\* ============================================================ Island model

\* island_model.h:53: for (auto& it : islands): whether the loop has an
\* island left once the first j islands of the vector were stepped, ignoring
\* result (mutant: it leaves the loop as soon as an island reports done).
IslandsLeftUntilDone(j, isl, result) == j < Len(isl) /\ ~result

\* island_model.h:53: for (auto& it : islands): whether the loop has an
\* island left once the first j islands of the vector were stepped.
IslandsLeft(j, isl, result) == j < Len(isl)

\* island_model.h:64: migration(islands, rng), for the migration functor m:
\* the operators move individuals between the islands' populations.
Migration(m, isl) ==
  LET pops == [k \in 1 .. Len(isl) |-> isl[k].pop]
      moved == IF m.op = "ring" THEN MigrationRing(m.size, pops)
               ELSE MigrationRandom(m.size, pops)
  IN  {[k \in 1 .. Len(isl) |-> [isl[k] EXCEPT !.pop = q[k]]] : q \in moved}

\* The genetic algorithm of an island: truncation selection of the whole
\* population, both rates 1/PctDen, ReplacementAll, and the termination
\* functor t.
IslandGa(t) ==
  [mutation_rate |-> 1, crossover_rate |-> 1,
   selection |-> [kind |-> "truncate", size |-> [count |-> 0, pnum |-> PctDen, pden |-> PctDen]],
   mutation_prob |-> 1,
   replacement |-> [kind |-> "all", size |-> [count |-> 0, pnum |-> 0, pden |-> PctDen]],
   termination |-> t]

\* The termination functors of the islands: all of one type.
IslandTerminations(n) ==
  [1 .. n -> {NewTerminationFitness(RepLen)}]
    \cup [1 .. n -> {NewTerminationGeneration(m) : m \in {2, 3}}]

\* The number of individuals of a vector of populations.
RECURSIVE PopulationTotal(_)
PopulationTotal(pops) ==
  IF pops = <<>> THEN 0
  ELSE PopulationTotal(SubSeq(pops, 1, Len(pops) - 1)) + Len(pops[Len(pops)])

\* test_island_model.cc:42: island.pop.resize(m): m default individuals,
\* whose representation is the all-zero bit vector.
ResizedPop(m) == [k \in 1 .. m |-> [data |-> [b \in 1 .. RepLen |-> FALSE], fitness |-> -1]]

\* The populations of n islands: at most MaxIslandInd individuals between
\* them.
IslandPops(n) ==
  {p \in [1 .. n -> {ResizedPop(m) : m \in 0 .. MaxIslandInd}] :
     PopulationTotal(p) <= MaxIslandInd}

\* test_island_model.cc:26-49: the model, and at least two islands, each with its own copy of the
\* genetic algorithm.
InitIslandVars ==
  /\ migration_rate \in 1 .. MaxRate
  /\ migration \in [op : {"ring", "random"},
                    size : {sz \in MigrationSizes : sz.count = 0 /\ sz.pnum > 0}]
  /\ \E n \in IslandCounts : \E pops \in IslandPops(n) :
     \E t \in IslandTerminations(n) :
       islands = [k \in 1 .. n |-> [pop |-> pops[k], ga |-> IslandGa(t[k])]]
  /\ im_pc = "idle"
  /\ im_i = 0
  /\ im_j = 0
  /\ im_result = FALSE
  /\ im_steps = [k \in 1 .. Len(islands) |-> 0]
  /\ im_round = [k \in 1 .. Len(islands) |-> "none"]
  /\ im_migrations = 0
  /\ im_returned = "none"
  /\ im_calls = 0

IdleIsland ==
  /\ migration_rate = 0
  /\ migration = [op |-> "none", size |-> [count |-> 0, pnum |-> 0, pden |-> PctDen]]
  /\ islands = <<>>
  /\ im_pc = "idle" /\ im_i = 0 /\ im_j = 0 /\ im_result = FALSE
  /\ im_steps = <<>> /\ im_round = <<>> /\ im_migrations = 0
  /\ im_returned = "none" /\ im_calls = 0

\* island_model.h:49-52: IslandModel::operator() is called (migration_rate > 0
\* is asserted) and enters the first round: i = 0, result = false.
IslandModelCall ==
  /\ im_pc = "idle"
  /\ migration_rate > 0
  /\ im_calls < MaxModelCalls
  /\ im_pc' = "round"
  /\ im_i' = 0
  /\ im_j' = 0
  /\ im_result' = FALSE
  /\ im_steps' = [k \in 1 .. Len(islands) |-> 0]
  /\ im_round' = [k \in 1 .. Len(islands) |-> "none"]
  /\ im_migrations' = 0
  /\ im_returned' = "none"
  /\ im_calls' = im_calls + 1
  /\ UNCHANGED <<migration_rate, migration, islands, tmp, cum_fitness>>

\* island_model.h:53-57 and 24-26: the next island of the round is stepped:
\* if (it(rng)) result = true, where it(rng) is ga(pop, rng).
IslandStep ==
  /\ im_pc = "round"
  /\ IslandsLeft(im_j, islands, im_result)
  /\ \E r \in GaStep(islands[im_j + 1].ga, islands[im_j + 1].pop, tmp, cum_fitness) :
       /\ islands' = [islands EXCEPT ![im_j + 1] = [pop |-> r.pop, ga |-> r.ga]]
       /\ tmp' = r.tmp
       /\ cum_fitness' = r.cum
       /\ im_result' = (im_result \/ r.result)
       /\ im_round' = [im_round EXCEPT ![im_j + 1] = BoolName(r.result)]
  /\ im_steps' = [im_steps EXCEPT ![im_j + 1] = @ + 1]
  /\ im_j' = im_j + 1
  /\ UNCHANGED <<migration_rate, migration, im_pc, im_i, im_migrations,
                 im_returned, im_calls>>

\* island_model.h:59-61: the round is over and an island reported done:
\* return true.
IslandModelReturnTrue ==
  /\ im_pc = "round"
  /\ ~IslandsLeft(im_j, islands, im_result)
  /\ im_result
  /\ im_pc' = "idle"
  /\ im_returned' = "true"
  /\ UNCHANGED <<migration_rate, migration, islands, tmp, cum_fitness, im_i, im_j,
                 im_result, im_steps, im_round, im_migrations, im_calls>>

\* island_model.h:51-52: the round is over, no island reported done and
\* ++i < migration_rate: the next round begins with result = false.
IslandModelNextRound ==
  /\ im_pc = "round"
  /\ ~IslandsLeft(im_j, islands, im_result)
  /\ ~im_result
  /\ im_i + 1 < migration_rate
  /\ im_i' = im_i + 1
  /\ im_j' = 0
  /\ im_result' = FALSE
  /\ im_round' = [k \in 1 .. Len(islands) |-> "none"]
  /\ UNCHANGED <<migration_rate, migration, islands, tmp, cum_fitness, im_pc,
                 im_steps, im_migrations, im_returned, im_calls>>

\* island_model.h:64-65: the last round is over and no island reported done:
\* migration(islands, rng); return false.
IslandModelMigrate ==
  /\ im_pc = "round"
  /\ ~IslandsLeft(im_j, islands, im_result)
  /\ ~im_result
  /\ im_i + 1 >= migration_rate
  /\ islands' \in Migration(migration, islands)
  /\ im_migrations' = im_migrations + 1
  /\ im_i' = im_i + 1
  /\ im_pc' = "idle"
  /\ im_returned' = "false"
  /\ UNCHANGED <<migration_rate, migration, tmp, cum_fitness, im_j, im_result,
                 im_steps, im_round, im_calls>>

\* ================================================================ Mutation

\* mutation.h:52: std::swap(value[index0], value[index1]), on 0-based
\* indices.
StdSwap(value, i0, i1) ==
  [k \in 1 .. Len(value) |->
     IF k = i0 + 1 THEN value[i1 + 1] ELSE IF k = i1 + 1 THEN value[i0 + 1]
     ELSE value[k]]

\* mutation.h:69-70: std::reverse(begin + min, begin + max): the elements
\* at min .. max - 1 are reversed, the one at max stays.
StdReverse(value, i0, i1) ==
  LET lo == Min(i0, i1)
      hi == Max(i0, i1)
  IN  [k \in 1 .. Len(value) |->
         IF k - 1 >= lo /\ k - 1 < hi THEN value[lo + hi - (k - 1)] ELSE value[k]]

\* mutation.h:87-93: the element at max_index is moved to min_index and the
\* elements between move up by one.
MoveElement(value, i0, i1) ==
  LET min_index == Min(i0, i1)
      max_index == Max(i0, i1)
  IN  [k \in 1 .. Len(value) |->
         IF k - 1 = min_index THEN value[max_index + 1]
         ELSE IF k - 1 > min_index /\ k - 1 <= max_index THEN value[k - 1]
         ELSE value[k]]

\* mutation.h:45, 63, 80: std::uniform_int_distribution<size_t>
\* dist(0, value.size() - 1): the values a draw can give, for a
\* representation of length >= 1.
MutationDraws(value) == 0 .. Len(value) - 1

\* The representations: 1, 2, ..., n for the lengths n of 1 .. MaxMutLen, and
\* the operators: MutationSwap(count), MutationInvert, MutationMove.
InitMutVars ==
  /\ mu_op \in {"swap", "invert", "move"}
  /\ mu_count \in (IF mu_op = "swap" THEN 0 .. MaxSwapCount ELSE {0})
  /\ \E n \in 1 .. MaxMutLen : mu_value = [k \in 1 .. n |-> k]
  /\ mu_i = 0
  /\ mu_index0 = -1
  /\ mu_index1 = -1
  /\ mu_pass = 0
  /\ mu_pc = "idle"

IdleMut ==
  /\ mu_op = "none" /\ mu_count = 0 /\ mu_value = <<>> /\ mu_i = 0
  /\ mu_index0 = -1 /\ mu_index1 = -1 /\ mu_pass = 0 /\ mu_pc = "idle"

\* mutation.h:44-46, 62-63, 79-80: operator()(value, rng) begins: the
\* distribution is constructed; MutationSwap tests i < count for i = 0 and
\* returns when count <= 0.
MutationCall ==
  /\ mu_op # "none"
  /\ mu_pc = "idle"
  /\ mu_pc' = IF mu_op = "swap" /\ ~(0 < mu_count) THEN "done" ELSE "index0"
  /\ UNCHANGED <<mu_op, mu_count, mu_value, mu_i, mu_index0, mu_index1, mu_pass>>

\* mutation.h:47-48, 64-65, 81-82: size_t index0 = dist(rng); size_t index1;
MutationDrawIndex0 ==
  /\ mu_pc = "index0"
  /\ mu_index0' \in MutationDraws(mu_value)
  /\ mu_index1' = -1
  /\ mu_pass' = 0
  /\ mu_pc' = "index1"
  /\ UNCHANGED <<mu_op, mu_count, mu_value, mu_i>>

\* mutation.h:49-51, 66-68, 83-85: one pass of do { index1 = dist(rng); }
\* while (index0 == index1) whose draw equals index0: the loop goes on.
MutationDrawSame ==
  /\ mu_pc = "index1"
  /\ mu_index0 \in MutationDraws(mu_value)
  /\ mu_index1' = mu_index0
  /\ mu_pass' = 1 - mu_pass
  /\ UNCHANGED <<mu_op, mu_count, mu_value, mu_i, mu_index0, mu_pc>>

\* mutation.h:49-53, 66-70, 83-93: the pass whose draw differs from index0:
\* the loop ends and the operator changes value; MutationSwap goes on with
\* ++i and the next swap while i < count, the others return.
MutationDrawDistinct ==
  /\ mu_pc = "index1"
  /\ \E d \in MutationDraws(mu_value) \ {mu_index0} :
       /\ mu_index1' = d
       /\ mu_value' = IF mu_op = "swap" THEN StdSwap(mu_value, mu_index0, d)
                      ELSE IF mu_op = "invert" THEN StdReverse(mu_value, mu_index0, d)
                      ELSE MoveElement(mu_value, mu_index0, d)
  /\ mu_i' = IF mu_op = "swap" THEN mu_i + 1 ELSE mu_i
  /\ mu_pass' = 1 - mu_pass
  /\ mu_pc' = IF mu_op = "swap" /\ mu_i + 1 < mu_count THEN "index0" ELSE "done"
  /\ UNCHANGED <<mu_op, mu_count, mu_index0>>

\* ========================================================== specifications

\* Each specification runs one component; the variables of the others keep
\* their idle values.

OthersPmx == <<varsSize, varsRepl, varsStag, varsSel, varsMig, varsGa,
  varsEda, varsIsland, varsEval, varsPbil, varsMut>>
InitPmx == InitPmxVars /\ IdleSize /\ IdleRepl /\ IdleStag /\ IdleSel
  /\ IdleMig /\ IdleGa /\ IdleEda /\ IdleIsland /\ IdleEval /\ IdlePbil
  /\ IdleMut
NextPmx == PmxCall /\ UNCHANGED OthersPmx
SpecPmx == InitPmx /\ [][NextPmx]_vars

OthersSize == <<varsPmx, varsRepl, varsStag, varsSel, varsMig, varsGa,
  varsEda, varsIsland, varsEval, varsPbil, varsMut>>
InitSize == InitSizeVars /\ IdlePmx /\ IdleRepl /\ IdleStag /\ IdleSel
  /\ IdleMig /\ IdleGa /\ IdleEda /\ IdleIsland /\ IdleEval /\ IdlePbil
  /\ IdleMut
NextSize == SizeCall /\ UNCHANGED OthersSize
SpecSelectionSize == InitSize /\ [][NextSize]_vars

OthersRepl == <<varsPmx, varsSize, varsStag, varsSel, varsMig, varsGa,
  varsEda, varsIsland, varsEval, varsPbil, varsMut>>
InitRepl == InitReplVars /\ IdlePmx /\ IdleSize /\ IdleStag /\ IdleSel
  /\ IdleMig /\ IdleGa /\ IdleEda /\ IdleIsland /\ IdleEval /\ IdlePbil
  /\ IdleMut
NextRepl == ReplacementElitistCall /\ UNCHANGED OthersRepl
SpecReplacement == InitRepl /\ [][NextRepl]_vars

OthersStag == <<varsPmx, varsSize, varsRepl, varsSel, varsMig, varsGa,
  varsEda, varsIsland, varsEval, varsPbil, varsMut>>
InitStag == InitStagVars /\ IdlePmx /\ IdleSize /\ IdleRepl /\ IdleSel
  /\ IdleMig /\ IdleGa /\ IdleEda /\ IdleIsland /\ IdleEval /\ IdlePbil
  /\ IdleMut
NextStag == StagnationCall /\ UNCHANGED OthersStag
SpecStagnation == InitStag /\ [][NextStag]_vars

OthersSel == <<varsPmx, varsSize, varsRepl, varsStag, varsMig, varsGa,
  varsEda, varsIsland, varsEval, varsPbil, varsMut>>
InitSel == InitSelVars /\ IdlePmx /\ IdleSize /\ IdleRepl /\ IdleStag
  /\ IdleMig /\ IdleGa /\ IdleEda /\ IdleIsland /\ IdleEval /\ IdlePbil
  /\ IdleMut
NextSel ==
  \/ RandomCall /\ UNCHANGED OthersSel
  \/ TruncateCall /\ UNCHANGED OthersSel
  \/ RouletteWheelCall /\ UNCHANGED OthersSel
  \/ SusCall /\ UNCHANGED OthersSel
  \/ TournamentCall /\ UNCHANGED OthersSel
SpecSelection == InitSel /\ [][NextSel]_vars

OthersMig == <<varsPmx, varsSize, varsRepl, varsStag, varsSel, varsGa,
  varsEda, varsIsland, varsEval, varsPbil, varsMut>>
InitMig == InitMigVars /\ IdlePmx /\ IdleSize /\ IdleRepl /\ IdleStag
  /\ IdleSel /\ IdleGa /\ IdleEda /\ IdleIsland /\ IdleEval /\ IdlePbil
  /\ IdleMut
NextMig ==
  \/ MigrationRandomCall /\ UNCHANGED OthersMig
  \/ MigrationRingCall /\ UNCHANGED OthersMig
SpecMigration == InitMig /\ [][NextMig]_vars

OthersEval == <<varsPmx, varsSize, varsRepl, varsStag, varsSel, varsMig,
  varsGa, varsEda, varsIsland, varsPbil, varsMut>>
InitEval == InitEvalVars /\ IdlePmx /\ IdleSize /\ IdleRepl /\ IdleStag
  /\ IdleSel /\ IdleMig /\ IdleGa /\ IdleEda /\ IdleIsland /\ IdlePbil
  /\ IdleMut
NextEval == EvaluateCall /\ UNCHANGED OthersEval
SpecEvaluate == InitEval /\ [][NextEval]_vars

OthersPbil == <<varsPmx, varsSize, varsRepl, varsStag, varsSel, varsMig,
  varsGa, varsEda, varsIsland, varsEval, varsMut>>
InitPbil == InitPbilVars /\ IdlePmx /\ IdleSize /\ IdleRepl /\ IdleStag
  /\ IdleSel /\ IdleMig /\ IdleGa /\ IdleEda /\ IdleIsland /\ IdleEval
  /\ IdleMut
NextPbil ==
  \/ PbilDistCall /\ UNCHANGED OthersPbil
  \/ PbilUpdateCall /\ UNCHANGED OthersPbil
SpecPbil == InitPbil /\ [][NextPbil]_vars

OthersMut == <<varsPmx, varsSize, varsRepl, varsStag, varsSel, varsMig,
  varsGa, varsEda, varsIsland, varsEval, varsPbil>>
InitMut == InitMutVars /\ IdlePmx /\ IdleSize /\ IdleRepl /\ IdleStag
  /\ IdleSel /\ IdleMig /\ IdleGa /\ IdleEda /\ IdleIsland /\ IdleEval
  /\ IdlePbil
NextMut ==
  \/ MutationCall /\ UNCHANGED OthersMut
  \/ MutationDrawIndex0 /\ UNCHANGED OthersMut
  \/ MutationDrawSame /\ UNCHANGED OthersMut
  \/ MutationDrawDistinct /\ UNCHANGED OthersMut
SpecMutation == InitMut /\ [][NextMut]_vars

\* A driver, a genetic algorithm or an estimation-of-distribution algorithm,
\* is stepped.  The selection of a genetic algorithm may write the prefix sums
\* of SelectionRouletteWheel.
OthersGa == <<varsPmx, varsSize, varsRepl, varsStag, varsMig, varsEda,
  varsIsland, varsEval, varsPbil, varsMut>>
OthersEda == <<varsPmx, varsSize, varsRepl, varsStag, varsSel, varsMig,
  varsGa, varsIsland, varsEval, varsPbil, varsMut>>
InitDrivers ==
  /\ IdlePmx /\ IdleSize /\ IdleRepl /\ IdleStag /\ IdleSel /\ IdleMig /\
     IdleIsland /\ IdleEval /\ IdlePbil /\ IdleMut
  /\ \/ InitGaVars /\ IdleEda
     \/ IdleGa /\ InitEdaVars
NextDrivers ==
  \/ GaStepCall /\ UNCHANGED OthersGa
  \/ EdaStepCall /\ UNCHANGED OthersEda
SpecDrivers == InitDrivers /\ [][NextDrivers]_vars

\* An island model is stepped; the genetic algorithms of its islands use the
\* thread_local pool and prefix sums.
OthersIsland == <<varsPmx, varsSize, varsRepl, varsStag, varsMig, varsEda,
  varsEval, varsPbil, varsMut, varsSelRest, varsGaRest>>
InitIsland ==
  /\ InitIslandVars
  /\ IdlePmx /\ IdleSize /\ IdleRepl /\ IdleStag /\ IdleSel /\ IdleMig /\
     IdleGa /\ IdleEda /\ IdleEval /\ IdlePbil /\ IdleMut
NextIsland ==
  \/ IslandModelCall /\ UNCHANGED OthersIsland
  \/ IslandStep /\ UNCHANGED OthersIsland
  \/ IslandModelReturnTrue /\ UNCHANGED OthersIsland
  \/ IslandModelNextRound /\ UNCHANGED OthersIsland
  \/ IslandModelMigrate /\ UNCHANGED OthersIsland
SpecIsland == InitIsland /\ [][NextIsland]_vars

\* Ga::Run on a genetic algorithm that stops after one generation
\* (TerminationGeneration(1)), with rates that let each pair be crossed or
\* not and each child be mutated or not: the instance, its population and the
\* records of the last step.
InitGaRun ==
  /\ \E g \in GaConfigs :
       /\ g.mutation_rate = 1 /\ g.crossover_rate = 1
       /\ g.termination.kind = "generation"
       /\ ga = [g EXCEPT !.termination = NewTerminationGeneration(1)]
  /\ \E n \in 0 .. MaxGaPop : ga_pop \in DirtyPops(n, RepLen)
  /\ ga_pop0 = <<>> /\ ga_result = "none" /\ ga_calls = 0
  /\ ga_path = "none" /\ ga_shuffled = <<>> /\ ga_pool = <<>> /\ ga_touched = {}

\* The run starts in a thread that has not stepped anything yet.
InitGa ==
  /\ InitGaRun
  /\ tmp = <<>>
  /\ IdlePmx /\ IdleSize /\ IdleRepl /\ IdleStag /\ IdleSel /\ IdleMig /\
     IdleEda /\ IdleIsland /\ IdleEval /\ IdlePbil /\ IdleMut
NextGa == GaRunStep /\ UNCHANGED OthersGa
SpecGa == InitGa /\ [][NextGa]_vars

\* What the earlier steps of other instances have left in the thread_local
\* buffers of the thread: a clean individual of the best fitness in the
\* population buffers (ga.h:66, eda.h:44) and a prefix sum (selection.h:75).
Scratch ==
  [pop |-> <<[data |-> [k \in 1 .. RepLen |-> TRUE], fitness |-> RepLen]>>,
   cum |-> <<RepLen>>]

\* Eda::Run on an estimation-of-distribution algorithm that stops after one
\* generation, with asserts compiled in and no mutation of the probabilities.
InitEdaRun ==
  /\ \E e \in EdaConfigs :
       /\ e.termination.kind = "generation"
       /\ e.update.mutation_prob = 0
       /\ e.update.lower_bound = Rat(0, 1)
       /\ eda = [e EXCEPT !.termination = NewTerminationGeneration(1)]
  /\ ndebug = FALSE
  /\ dist = NewPbilDist(RepLen)
  /\ eda_result = "none"
  /\ eda_calls = 0

\* A driver runs in a thread whose buffers earlier steps have used.  The
\* genetic algorithms are those with ReplacementElitist, which reads the pool
\* and the population.
InitScratch ==
  /\ IdleSize /\ IdleRepl /\ IdleStag /\ IdleMig /\ IdleIsland /\ IdleEval /\
     IdlePbil /\ IdleMut
  /\ IdlePmx
  /\ sel_op = "none" /\ sel_size = [count |-> 0, pnum |-> 0, pden |-> PctDen]
  /\ tournament_size = 0 /\ sel_src = <<>> /\ sel_src0 = <<>>
  /\ sel_dst = <<>> /\ sel_dst0 = <<>> /\ sel_rand = <<>> /\ sel_outcome = "none"
  /\ \/ /\ InitGaRun /\ ga.replacement.kind = "elitist"
        /\ tmp = Scratch.pop /\ cum_fitness = Scratch.cum /\ IdleEda
     \/ InitEdaRun /\ eda_pop = Scratch.pop /\ cum_fitness = Scratch.cum /\ IdleGa
NextScratch ==
  \/ GaRunStep /\ UNCHANGED OthersGa
  \/ EdaRunStep /\ UNCHANGED OthersEda
SpecScratch == InitScratch /\ [][NextScratch]_vars

\* A mutation operator with fair random draws: the call goes on while it can,
\* and a draw that differs from index0, possible again and again, is
\* eventually made.
SpecMutationFair ==
  /\ SpecMutation
  /\ WF_vars(NextMut)
  /\ SF_vars(MutationDrawDistinct /\ UNCHANGED OthersMut)

\* Ga::Run on a genetic algorithm whose selection functor is a decorator, in
\* a thread that has not stepped anything yet.
InitDecorated ==
  /\ ga \in DecoratedConfigs
  /\ \E n \in 0 .. MaxGaPop : ga_pop \in DirtyPops(n, RepLen)
  /\ tmp = <<>>
  /\ ga_pop0 = <<>> /\ ga_result = "none" /\ ga_calls = 0
  /\ ga_path = "none" /\ ga_shuffled = <<>> /\ ga_pool = <<>> /\ ga_touched = {}
  /\ IdlePmx /\ IdleSize /\ IdleRepl /\ IdleStag /\ IdleSel /\ IdleMig /\
     IdleEda /\ IdleIsland /\ IdleEval /\ IdlePbil /\ IdleMut
NextDecorated == GaRunStep /\ UNCHANGED OthersGa
SpecDecorated == InitDecorated /\ [][NextDecorated]_vars

\* ================================================================== claims

\* C1: after CrossoverPmx has run on two equal-length permutations of
\* 0..size-1, with any pair of cut points of 0..size, each of the two
\* representations is still a permutation of 0..size-1.
C1_PmxKeepsPermutations ==
  pmx_calls > 0 =>
    /\ IsPermutation0(value0, Cardinality(DOMAIN value0))
    /\ IsPermutation0(value1, Cardinality(DOMAIN value1))
    /\ Cardinality(DOMAIN value0) = Cardinality(DOMAIN value1)

\* A call that exchanged at least two positions of length-3 parents and
\* changed the first parent.
C1_Witness ==
  /\ pmx_calls = 1
  /\ index1 - index0 >= 2
  /\ Cardinality(DOMAIN value0) = 3
  /\ value0 # value1
  /\ p0 # <<>>

\* The set of individuals at the positions lo..hi of pop.
Members(pop, lo, hi) == {pop[i] : i \in lo .. hi}

\* C2: after ReplacementElitist the destination holds elite_count + pool size
\* individuals, elite_count being the SelectionSize of the destination size
\* before the call; its first elite_count individuals are elite_count
\* individuals of the old destination none of which has a lower fitness than
\* an individual left out; the pool follows them and is left empty.
C2_ElitistKeepsTop ==
  rp_calls > 0 =>
    LET elite_count == SelectionSizeCall(rp_size, Len(rp_dst0))
        old == Members(rp_dst0, 1, Len(rp_dst0))
        elite == Members(rp_dst, 1, elite_count)
    IN  /\ Len(rp_dst) = elite_count + Len(rp_src0)
        /\ elite_count <= Len(rp_dst0)
        /\ elite \subseteq old
        /\ Cardinality(elite) = elite_count
        /\ \A e \in elite : \A o \in old \ elite : e.fitness >= o.fitness
        /\ SubSeq(rp_dst, elite_count + 1, Len(rp_dst)) = rp_src0
        /\ rp_src = <<>>

\* A call that kept two of three individuals, dropped one of a strictly
\* lower fitness that stood first, and appended a pool of two.
C2_Witness ==
  /\ rp_calls = 1
  /\ Len(rp_dst0) = 3
  /\ Len(rp_src0) = 2
  /\ SelectionSizeCall(rp_size, 3) = 2
  /\ Len(rp_dst) = 4
  /\ rp_dst0[1].fitness < rp_dst0[2].fitness
  /\ rp_dst0[1].fitness < rp_dst0[3].fitness
  /\ rp_dst0[2].fitness = rp_dst0[3].fitness

\* C7: a SelectionSize built from a count c > 0 resolves to min(c, n); one
\* built from a percentage p resolves to ceil(p * n), the least integer k
\* with k >= p * n; in both modes the result is at most n.
C7_SelectionSizeResolves ==
  ss_calls > 0 =>
    /\ ss.count > 0 =>
         /\ ss_result <= ss.count /\ ss_result <= ss_size
         /\ ss_result = ss.count \/ ss_result = ss_size
    /\ ss.count = 0 =>
         /\ ss_result * ss.pden >= ss.pnum * ss_size
         /\ (ss_result - 1) * ss.pden < ss.pnum * ss_size
    /\ ss_result <= ss_size
    /\ ss_result >= 0

\* A percentage call that rounds up (3/4 of 3 is 3).
C7_Witness ==
  /\ ss_calls > 0
  /\ ss.count = 0
  /\ ss.pnum * ss_size > 0
  /\ (ss.pnum * ss_size) % ss.pden # 0
  /\ ss_result * ss.pden > ss.pnum * ss_size

\* Every call so far was on a non-empty population of a best fitness >= 0,
\* and the best fitness rose strictly from each call to the next.
StrictlyIncreasingHistory ==
  /\ \A i \in 1 .. Len(st_hist) : st_hist[i] >= 0
  /\ \A i \in 1 .. Len(st_hist) - 1 : st_hist[i] < st_hist[i + 1]

\* C3: while the best fitness rises strictly from call to call (values >= 0,
\* a first value of 0 included), no call of a fresh TerminationStagnation
\* returns true, whatever max_generations is.
C3_IncreasingNeverStops ==
  (Len(st_hist) > 0 /\ StrictlyIncreasingHistory) => st_result = FALSE

\* The best fitness on record before call i: the largest best fitness of the
\* calls before it, and 0 when none was higher (a fresh predicate holds 0).
BestBefore(i) ==
  LET seen == {st_hist[j] : j \in 1 .. i - 1} \cup {0}
  IN  CHOOSE b \in seen : \A x \in seen : x <= b

\* Call i saw a strictly better fitness than any on record.
ImprovedAt(i) == st_hist[i] # EmptyPop /\ st_hist[i] > BestBefore(i)

\* The calls on a non-empty population without improvement since the last
\* improvement (since construction when there was none).
CallsWithoutImprovement ==
  LET n == Len(st_hist)
      last == IF \E i \in 1 .. n : ImprovedAt(i)
                THEN CHOOSE i \in 1 .. n :
                       ImprovedAt(i) /\ \A j \in i + 1 .. n : ~ImprovedAt(j)
                ELSE 0
  IN  Cardinality({j \in last + 1 .. n : st_hist[j] # EmptyPop})

\* C4: a call that sees a strictly better fitness returns false and resets
\* the no-improvement counter to 0; the k-th consecutive call without
\* improvement returns true exactly when k >= max_generations, so it returns
\* false on the first max_generations - 1 such calls and true on the
\* max_generations-th.
C4_StopsAtBoundary ==
  (Len(st_hist) > 0 /\ st_hist[Len(st_hist)] # EmptyPop) =>
    /\ st.curr_generation_ = CallsWithoutImprovement
    /\ IF ImprovedAt(Len(st_hist))
         THEN st_result = FALSE /\ st.curr_generation_ = 0
         ELSE st_result = (CallsWithoutImprovement >= st.max_generations)

\* An improvement to 1, then a constant best fitness: the predicate of
\* max_generations 3 returns true on the third call without improvement.
C4_Witness ==
  /\ st.max_generations = 3
  /\ st_hist = <<1, 1, 1, 1>>
  /\ st_result = TRUE

\* The individuals the call appended to the destination.
Appended == SubSeq(sel_dst, Len(sel_dst0) + 1, Len(sel_dst))

\* One individual of src holds the whole, positive, total fitness.
Concentrated(src) ==
  /\ TotalFitness(src) > 0
  /\ \E i \in 1 .. Len(src) :
       /\ src[i].fitness = TotalFitness(src)
       /\ \A j \in 1 .. Len(src) : j # i => src[j].fitness = 0

\* C5: on a source in which one individual has the whole positive total
\* fitness and every other has fitness 0, SelectionRouletteWheel and
\* SelectionSus append only copies of that individual, for every sample
\* count >= 1, every roulette draw in [0, total) and every SUS offset.
C5_ConcentratedSelectsOnlyFit ==
  (sel_op \in {"roulette", "sus"} /\ sel_outcome = "returned" /\ Concentrated(sel_src)
     /\ SelectionSizeCall(sel_size, Len(sel_src)) >= 1) =>
    \A k \in 1 .. Len(Appended) : Appended[k].fitness = TotalFitness(sel_src)

\* C6: a call of SelectionRouletteWheel or SelectionSus on a non-empty source
\* of total fitness 0 ends in a reported error, not in a normal return.
C6_ZeroTotalIsAnError ==
  (sel_op \in {"roulette", "sus"} /\ sel_outcome # "none" /\ sel_src # <<>>
     /\ TotalFitness(sel_src) = 0) =>
    sel_outcome = "error"

\* Every individual of the islands, island after island.
RECURSIVE Flatten(_)
Flatten(isl) ==
  IF isl = <<>> THEN <<>> ELSE Flatten(SubSeq(isl, 1, Len(isl) - 1)) \o isl[Len(isl)]

\* The number of times x stands in pop.
Occurrences(pop, x) == Cardinality({i \in 1 .. Len(pop) : pop[i] = x})

\* C8: after any sequence of MigrationRandom or MigrationRing calls on at
\* least two islands, the islands hold together the individuals they held at
\* first: the same total count, each individual as often as before.
C8_MigrationConserves ==
  LET now == Flatten(mg_islands)
  IN  /\ Len(now) = Len(mg_all)
      /\ \A k \in 1 .. Len(mg_all) : Occurrences(now, mg_all[k]) = Occurrences(mg_all, mg_all[k])
      /\ \A k \in 1 .. Len(now) : Occurrences(now, now[k]) = Occurrences(mg_all, now[k])

\* A migration call on three islands that moved individuals: it
\* emptied the first island and left both individuals on the second.
C8_Witness ==
  /\ mg_called
  /\ Len(mg_islands) = 3
  /\ Len(mg_all) = 2
  /\ Len(mg_before[1]) = 2
  /\ mg_islands[1] = <<>>
  /\ Len(mg_islands[2]) = 2
  /\ mg_before[2] = <<>>

\* C9: in every IslandModel step all islands perform the same number r of GA
\* steps, 1 <= r <= migration_rate, every island being stepped in each
\* executed round even after an earlier island reported done; the step
\* returns true iff some island's GA step returned true in the last executed
\* round; the migration operator is executed exactly once in a step that
\* returns false and never in a step that returns true (nor before the
\* rounds are over).
C9_IslandModelStep ==
  /\ im_pc = "round" =>
        /\ \A k \in 1 .. Len(islands) :
              im_steps[k] = IF k <= im_j THEN im_i + 1 ELSE im_i
        /\ im_i < migration_rate
        /\ im_migrations = 0
  /\ (im_pc = "idle" /\ im_returned # "none") =>
        /\ \E r \in 1 .. migration_rate :
              \A k \in 1 .. Len(islands) : im_steps[k] = r
        /\ (im_returned = "true") <=>
              (\E k \in 1 .. Len(islands) : im_round[k] = "true")
        /\ \A k \in 1 .. Len(islands) : im_round[k] \in {"true", "false"}
        /\ im_migrations = IF im_returned = "false" THEN 1 ELSE 0

\* A step that returned true after its second round, in which the first
\* island reported done and the second, stepped all the same, did not.
C9_Witness ==
  /\ im_pc = "idle"
  /\ im_returned = "true"
  /\ im_round = <<"true", "false">>
  /\ im_steps = <<2, 2>>
  /\ im_migrations = 0

\* C10: a GA step called on an empty population, and an EDA step whose
\* working population is empty (pop_size = 0), each return true: neither
\* ends in a failed assertion or in undefined behaviour, and neither returns
\* false.
C10_EmptyReportsDone ==
  /\ (ga_result # "none" /\ ga_pop0 = <<>>) => ga_result = "true"
  /\ (eda_result # "none" /\ eda.pop_size = 0) => eda_result = "true"

\* C11: when the selection operator yields an empty mating pool on a
\* non-empty population, the GA step returns false and leaves the population
\* exactly as it was when the step began: the same individuals in the same
\* order with the same representations and fitness values; the step ends
\* before the replacement and termination functors (nothing is handed to
\* them).
C11_EmptyPoolLeavesPopulation ==
  ga_path = "no_pool" =>
    /\ ga_pop0 # <<>>
    /\ ga_result = "false"
    /\ ga_pop = ga_pop0
    /\ ga_pool = <<>>

\* C12: a call of Evaluate invokes the evaluator exactly once for each
\* individual that was dirty and never for one that was clean; afterwards no
\* individual is dirty, the individuals that were clean have the fitness and
\* representation they had, and those that were dirty have their
\* representation and the evaluator's value for it.
C12_EvaluateOnlyDirty ==
  ev_calls > 0 =>
    /\ Len(ev_pop) = Len(ev_pop0)
    /\ \A k \in 1 .. Len(ev_pop0) :
         /\ Cardinality({j \in 1 .. Len(ev_log) : ev_log[j] = k - 1})
              = IF is_dirty(ev_pop0[k]) THEN 1 ELSE 0
         /\ ~is_dirty(ev_pop[k])
         /\ ~is_dirty(ev_pop0[k]) => ev_pop[k] = ev_pop0[k]
         /\ is_dirty(ev_pop0[k]) =>
              ev_pop[k] = [ev_pop0[k] EXCEPT !.fitness = EvaluationFunc(ev_pop0[k].data)]
    /\ \A j \in 1 .. Len(ev_log) : ev_log[j] \in 0 .. Len(ev_pop0) - 1

\* A call on a clean individual whose stored fitness is not the evaluator's
\* value, followed by a dirty one: the evaluator was invoked on the second
\* only.
C12_Witness ==
  /\ ev_calls = 1
  /\ Len(ev_pop0) = 2
  /\ ~is_dirty(ev_pop0[1])
  /\ ev_pop0[1].fitness # EvaluationFunc(ev_pop0[1].data)
  /\ is_dirty(ev_pop0[2])
  /\ ev_log = <<1>>

\* C13: in the mating pool that a GA step hands to the replacement operator,
\* every individual to which crossover or mutation was applied in that step
\* is dirty, every other individual of the pool has exactly the
\* representation and the fitness it had when selected (it is at the place
\* the shuffle gave it, equal to an individual of the evaluated population),
\* and when the size of the pool is odd its last individual is one of the
\* unmodified ones.
C13_PoolHandedToReplacement ==
  ga_path = "full" =>
    /\ Len(ga_pool) = Len(ga_shuffled)
    /\ \A k \in 1 .. Len(ga_pool) :
         /\ k \in ga_touched => is_dirty(ga_pool[k])
         /\ k \notin ga_touched =>
              /\ ga_pool[k] = ga_shuffled[k]
              /\ \E j \in 1 .. Len(ga_pop0) : ga_pool[k] = Evaluate(ga_pop0)[j]
    /\ Len(ga_pool) % 2 = 1 => Len(ga_pool) \notin ga_touched

\* A step on a pool of two: the first child of the pair was modified and is
\* dirty, the second was not and is as the shuffle placed it, clean.
C13_Witness ==
  /\ ga_path = "full"
  /\ Len(ga_pool) = 2
  /\ ga_touched = {1}
  /\ ga_pool[1].data # ga_shuffled[1].data
  /\ is_dirty(ga_pool[1])
  /\ ga_pool[2] = ga_shuffled[2]
  /\ ~is_dirty(ga_pool[2])

\* C14: for each of SelectionRandom, SelectionTruncate,
\* SelectionRouletteWheel, SelectionSus and SelectionTournament, on every
\* source with positive total fitness the destination grows by exactly
\* k = SelectionSize(source size) individuals and the source keeps the same
\* multiset of individuals; on an empty source nothing is appended.
C14_SelectionAppendsK ==
  sel_outcome = "returned" =>
    /\ TotalFitness(sel_src0) > 0 =>
         /\ Len(sel_dst) = Len(sel_dst0) + SelectionSizeCall(sel_size, Len(sel_src0))
         /\ Len(sel_src) = Len(sel_src0)
         /\ \A k \in 1 .. Len(sel_src0) :
              Occurrences(sel_src, sel_src0[k]) = Occurrences(sel_src0, sel_src0[k])
    /\ sel_src0 = <<>> => sel_dst = sel_dst0

\* C15: Ga::Run with a TerminationGeneration(N) predicate, N >= 1, started on
\* a non-empty population, returns after exactly N steps: no step before the
\* N-th returns true, and the N-th does.
C15_RunReturnsAfterN ==
  (ga.termination.kind = "generation" /\ ga_calls >= 1 /\ ga_pop0 # <<>>) =>
    /\ ga_result = "true" => ga_calls = ga.termination.max_generations
    /\ ga_calls >= ga.termination.max_generations => ga_result = "true"

\* What a caller can see of the results of a GA step: everything but the
\* thread_local pool and prefix sums the step leaves.
GaVisible(S) ==
  {[ga |-> r.ga, pop |-> r.pop, result |-> r.result, path |-> r.path,
    shuffled |-> r.shuffled, pool |-> r.pool, touched |-> r.touched] : r \in S}

\* What a caller can see of the results of an EDA step: everything but the
\* thread_local population the step leaves.
EdaVisible(S) == {[eda |-> r.eda, prob |-> r.prob, result |-> r.result] : r \in S}

C17_FitnessReadOnlyWhenClean ==
  /\ (ga_path = "full" /\ ga.termination.kind \in {"fitness", "stagnation"}) =>
       \A k \in 1 .. Len(ga_pop) : ~is_dirty(ga_pop[k])
  /\ eda_result \in {"true", "false"} =>
       \A k \in 1 .. Len(eda_pop) : ~is_dirty(eda_pop[k])

\* The C++ indices of the islands of isl that hold the individual x.
IslandsHolding(isl, x) ==
  {j \in 0 .. Len(isl) - 1 : \E k \in 1 .. Len(isl[j + 1]) : isl[j + 1][k] = x}

\* C18: in MigrationRandom on n >= 2 islands, for every source island i and
\* every draw, each migrated individual is appended to an island whose index
\* differs from i.  Stated of the loop body for each island i on the islands
\* as they are: island i is left with count individuals fewer, all of them
\* individuals it held, and each of the others is on exactly one island other
\* than i.
C18_RandomNeverMigratesBack ==
  mg_op = "random" =>
    \A i \in 0 .. Len(mg_islands) - 1 :
      \A r \in MigrationRandomIsland(mg_size, mg_islands, i) :
        LET src == mg_islands[i + 1]
            count == SelectionSizeCall(mg_size, Len(src))
        IN  /\ Len(r[i + 1]) = Len(src) - count
            /\ \A k \in 1 .. Len(src) :
                 \/ IslandsHolding(r, src[k]) = {i}
                 \/ /\ i \notin IslandsHolding(r, src[k])
                    /\ Cardinality(IslandsHolding(r, src[k])) = 1

\* A call on three islands whose last island held the only individual: it is
\* now on the first island, where the draw of the last island's own index
\* sends it.
C18_Witness ==
  /\ mg_op = "random"
  /\ mg_called
  /\ Len(mg_islands) = 3
  /\ Len(mg_all) = 1
  /\ mg_before = <<<<>>, <<>>, mg_all>>
  /\ mg_islands = <<mg_all, <<>>, <<>>>>

\* C19: after one MigrationRing call on n >= 2 islands every individual is
\* still on the island it was on when the call began or on that island's
\* cyclic successor.
C19_RingMovesOneIsland ==
  (mg_op = "ring" /\ mg_called) =>
    \A k \in 1 .. Len(mg_all) :
      \A b \in IslandsHolding(mg_before, mg_all[k]) :
        IslandsHolding(mg_islands, mg_all[k])
          \subseteq {b, IF b + 1 >= Len(mg_islands) THEN 0 ELSE b + 1}

\* C20: with lower_bound <= upper_bound, after every PbilUpdate call that
\* returns, every entry of the probability vector lies in
\* [lower_bound, upper_bound]; sampling from the PbilDist leaves the
\* probability vector as it was.
C20_ProbWithinBounds ==
  /\ pb_last = "ok" =>
       \A k \in 1 .. Len(pb_prob) :
         /\ ~RatLess(pb_prob[k], pb_update.lower_bound)
         /\ ~RatLess(pb_update.upper_bound, pb_prob[k])
  /\ pb_last = "sample" => pb_prob = pb_prob0

\* An update with both bounds 1 on the initial vector: what it computes is
\* at most 3/4, and the entry stored is 1.
C20_Witness ==
  /\ pb_last = "ok"
  /\ pb_update.lower_bound = Rat(1, 1)
  /\ pb_prob0 = NewPbilDist(RepLen)
  /\ pb_prob = [k \in 1 .. RepLen |-> Rat(1, 1)]

\* C21: with a deterministic evaluator, after any sequence of GA steps with
\* any selection functor, the decorators SelectionRank and SelectionSigma
\* included, every individual of the population that is not dirty has the
\* fitness the evaluator gives its representation: no rank fitness and no
\* sigma-scaled fitness is left as a stored fitness.  After a full step of an
\* instance with SelectionSigma (rates 0, ReplacementAll) the population is
\* the pool, whose fitness values are the scaled ones, all positive and so
\* not dirty.
C21_StoredFitnessIsEvaluated ==
  \A k \in 1 .. Len(ga_pop) :
    IF ga.selection.kind = "sigma" /\ ga_path = "full"
      THEN RealIsInt(ga_pop[k].fitness, EvaluationFunc(ga_pop[k].data))
      ELSE ~is_dirty(ga_pop[k]) =>
             ga_pop[k].fitness = EvaluationFunc(ga_pop[k].data)

\* C22: for every representation of length >= 1, MutationSwap with
\* count >= 1, MutationInvert and MutationMove eventually return under fair
\* random draws: every call that has begun is followed by its return.
C22_MutationReturns == (mu_pc # "idle") ~> (mu_pc = "done")

====
